---- MODULE Spec2Model ----
(***************************************************************************)
(* A model of ctx, the context accumulator TUI (main.go, context.go,       *)
(* exclude.go).  Strings are sequences of one-character strings, so that   *)
(* prefix, suffix and equality tests are computed as the Go code computes  *)
(* them.                                                                   *)
(***************************************************************************)
EXTENDS Integers, Sequences, FiniteSets, TLC

VARIABLES
    m,        \* the Bubble Tea Model (main.go:65-100)
    store,    \* ~/.ctx/contexts/: context name -> stored Context
    cfg,      \* ~/.ctx/config.yaml
    disk,     \* the user's files: path -> does the file exist now
    hist,     \* ~/.ctx/history/: storage key -> HistoryEntry
    now,      \* the wall clock, in ticks, when the program last read it
    faults,   \* how many I/O operations have failed so far
    ev        \* the last event: its name and input, the message it gave to
              \* setStatus and the text it gave to CopyToClipboard

vars == <<m, store, cfg, disk, hist, now, faults, ev>>

----------------------------------------------------------------------------
(* Bounds of the model.                                                    *)

MaxLen == 2        \* longest file list / argument list drawn as an input
MaxTime == 1       \* the last clock reading of a run
MaxMissing == 1    \* how many of the user's files may be absent at once
TicksPerSecond == 3  \* clock ticks per second of the history file name
MaxFaults == 1     \* how many I/O operations (write, walk, clipboard) may fail in a run
HistMaxTime == 3   \* the last clock reading when the history store is driven directly
SessionLen == 6    \* the key presses and pastes of a session

----------------------------------------------------------------------------
(* Strings.                                                                *)

NL == "\n"

HasPrefix(s, p) == Len(p) <= Len(s) /\ SubSeq(s, 1, Len(p)) = p

HasSuffix(s, p) == Len(p) <= Len(s) /\ SubSeq(s, Len(s) - Len(p) + 1, Len(s)) = p

TrimPrefix(s, p) == IF HasPrefix(s, p) THEN SubSeq(s, Len(p) + 1, Len(s)) ELSE s

IsSpace(c) == c \in {" ", NL}

RECURSIVE TrimLeft(_)
TrimLeft(s) == IF s # <<>> /\ IsSpace(Head(s)) THEN TrimLeft(Tail(s)) ELSE s

RECURSIVE TrimRight(_)
TrimRight(s) ==
    IF s # <<>> /\ IsSpace(s[Len(s)]) THEN TrimRight(SubSeq(s, 1, Len(s) - 1)) ELSE s

TrimSpace(s) == TrimRight(TrimLeft(s))

\* the index of the last "/" of s, 0 when there is none
RECURSIVE LastSlash(_, _)
LastSlash(s, i) == IF i = 0 THEN 0 ELSE IF s[i] = "/" THEN i ELSE LastSlash(s, i - 1)

\* filepath.Base and filepath.Dir on the cleaned absolute paths of the model
Base(p) ==
    IF p = <<>> THEN <<".">>
    ELSE IF p = <<"/">> THEN p
    ELSE SubSeq(p, LastSlash(p, Len(p)) + 1, Len(p))

Dir(p) ==
    LET i == LastSlash(p, Len(p))
    IN  IF i = 0 THEN <<".">> ELSE IF i = 1 THEN <<"/">> ELSE SubSeq(p, 1, i - 1)

Range(s) == {s[i] : i \in DOMAIN s}

SeqsUpTo(S, n) == UNION {[1..k -> S] : k \in 0..n}

NoDup(s) == \A i, j \in DOMAIN s : s[i] = s[j] => i = j

Count(s, x) == Cardinality({i \in DOMAIN s : s[i] = x})

----------------------------------------------------------------------------
(* The paths of the model.                                                 *)

PAX == <<"/", "a", "/", "x">>                 \* /a/x
PASY == <<"/", "a", "/", "s", "/", "y">>      \* /a/s/y
PBZ == <<"/", "b", "/", "z">>                 \* /b/z
PADOTX == <<"/", "a", "/", ".", "/", "x">>    \* /a/./x, the same file as /a/x

DA == <<"/", "a">>
DAS == <<"/", "a", "/", "s">>
DB == <<"/", "b">>
PBL == <<"/", "b", "/", "l">>                 \* /b/l, a symbolic link to /a

DANM == <<"/", "a", "/", "n", "o", "d", "e", "_", "m", "o", "d", "u", "l", "e", "s">>
PANMI == DANM \o <<"/", "i">>                 \* /a/node_modules/i
PNONE == <<"/", "q">>                         \* a path that never exists
PREL == <<"a", "/", "x">>                     \* a relative path

\* the user's files that come and go; /a/node_modules/i and /b/z always exist
FilePaths == {PAX, PASY}
DirPaths == {DA, DANM, DAS, DB}
LinkPaths == {PBL}

\* directory entries in the lexical order filepath.WalkDir visits them
Children(dir) ==
    IF dir = DA THEN <<DANM, DAS, PAX>>
    ELSE IF dir = DANM THEN <<PANMI>>
    ELSE IF dir = DAS THEN <<PASY>>
    ELSE IF dir = DB THEN <<PBL, PBZ>>
    ELSE <<>>

\* the bytes of each file while it exists
Content(path) ==
    IF path = PAX THEN <<"c">>
    ELSE IF path = PBZ THEN <<"c", NL>>
    ELSE IF path = PANMI THEN <<"c", "c", "c">>
    ELSE <<>>

\* os.Stat succeeds on path; os.ReadFile succeeds on the paths it gives as files
Exists(d, path) ==
    \/ path \in DirPaths \/ path \in LinkPaths \/ path \in {PANMI, PBZ}
    \/ (path \in FilePaths /\ d[path])

\* stat.IsDir(): os.Stat follows a symbolic link
IsDir(path) == path \in DirPaths \/ path \in LinkPaths

\* d.IsDir() of the os.DirEntry filepath.WalkDir hands over: it follows no link
EntryIsDir(path) == path \in DirPaths

\* the paths handed to the Context methods when they are exercised directly
CtxPaths == {PAX, PASY, PBZ, PADOTX}

----------------------------------------------------------------------------
(* context.go: the Context methods.  Each takes the Files slice and        *)
(* returns the new one (AddFile with its boolean result).                  *)

AddFile_NoDupCheck(files, path) == [Files |-> Append(files, path), ok |-> TRUE]

\* an AddFile that compares the cleaned paths (filepath.Clean drops "/.")
RECURSIVE Clean(_)
Clean(s) ==
    IF s = <<>> THEN <<>>
    ELSE IF HasPrefix(s, <<"/", ".", "/">>) THEN Clean(SubSeq(s, 3, Len(s)))
    ELSE <<Head(s)>> \o Clean(Tail(s))

AddFile_CleanCompare(files, path) ==
    IF \E i \in DOMAIN files : Clean(files[i]) = Clean(path)
    THEN [Files |-> files, ok |-> FALSE]
    ELSE [Files |-> Append(files, path), ok |-> TRUE]

AddFile(files, path) ==
    IF \E i \in DOMAIN files : files[i] = path
    THEN [Files |-> files, ok |-> FALSE]
    ELSE [Files |-> Append(files, path), ok |-> TRUE]

\* a RemoveFile that drops only the first match
RemoveFile_FirstOnly(files, path) ==
    IF \E i \in DOMAIN files : files[i] = path
    THEN LET k == CHOOSE i \in DOMAIN files :
                      files[i] = path /\ \A j \in 1..(i - 1) : files[j] # path
         IN  SubSeq(files, 1, k - 1) \o SubSeq(files, k + 1, Len(files))
    ELSE files

RemoveFile(files, path) == SelectSeq(files, LAMBDA f : f # path)

\* a RemoveFiles that honours only the first path of its argument
RemoveFiles_HeadOnly(files, paths) ==
    IF paths = <<>> THEN files ELSE SelectSeq(files, LAMBDA f : f # paths[1])

RemoveFiles(files, paths) ==
    LET pathSet == {paths[i] : i \in DOMAIN paths}
    IN  SelectSeq(files, LAMBDA f : f \notin pathSet)

----------------------------------------------------------------------------
(* exclude.go: exclude rules and directory expansion.                      *)

\* the index of the "]" that closes the class opened at pat[1], 0 when none does
ClassEnd(pat) ==
    LET ends == {j \in 3..Len(pat) : pat[j] = "]"}
    IN  IF ends = {} THEN 0 ELSE CHOOSE j \in ends : \A k \in ends : j <= k

\* the first result of doublestar.Match for patterns made of literals, "?",
\* "*", "**" path components and classes of listed characters; it is false
\* where the call returns ErrBadPattern (a class that is not closed).
RECURSIVE Match(_, _)
Match(pat, name) ==
    IF pat = <<>> THEN name = <<>>
    ELSE IF Head(pat) = "["
    THEN LET j == ClassEnd(pat)
         IN  /\ j # 0
             /\ name # <<>> /\ Head(name) # "/"
             /\ \E k \in 2..(j - 1) : pat[k] = Head(name)
             /\ Match(SubSeq(pat, j + 1, Len(pat)), Tail(name))
    ELSE IF HasPrefix(pat, <<"*", "*", "/">>)
    THEN LET rest == SubSeq(pat, 4, Len(pat))
         IN  \/ Match(rest, name)
             \/ \E i \in DOMAIN name :
                    name[i] = "/" /\ Match(rest, SubSeq(name, i + 1, Len(name)))
    ELSE IF pat = <<"*", "*">> THEN TRUE
    ELSE IF pat = <<"/", "*", "*">> /\ name = <<>> THEN TRUE
    ELSE IF Head(pat) = "*"
    THEN \E k \in 0..Len(name) :
            /\ \A i \in 1..k : name[i] # "/"
            /\ Match(Tail(pat), SubSeq(name, k + 1, Len(name)))
    ELSE IF Head(pat) = "?"
    THEN name # <<>> /\ Head(name) # "/" /\ Match(Tail(pat), Tail(name))
    ELSE name # <<>> /\ Head(name) = Head(pat) /\ Match(Tail(pat), Tail(name))

\* a ShouldExclude that tries the full path only
ShouldExclude_FullPathOnly(exc, path) ==
    \E i \in DOMAIN exc.Patterns : Match(exc.Patterns[i], path)

ShouldExclude(exc, path) ==
    \E i \in DOMAIN exc.Patterns :
        \/ Match(exc.Patterns[i], path)
        \/ Match(exc.Patterns[i], Base(path))

\* the rule EnsureConfigDir writes to excludes/default.yaml
DefaultExclude ==
    [Name |-> <<"d", "e", "f", "a", "u", "l", "t">>,
     Patterns |-> <<
        <<"*", "*", "/">> \o SubSeq(DANM, 4, Len(DANM)) \o <<"/", "*", "*">>,
        <<"*", "*", "/", ".", "g", "i", "t", "/", "*", "*">>,
        <<"*", "*", "/", ".", "e", "n", "v">>,
        <<"*", "*", "/", ".", "e", "n", "v", ".", "*">>,
        <<"*", "*", "/", "*", ".", "e", "n", "v">>,
        <<"*", "*", "/", "p", "a", "c", "k", "a", "g", "e", "-", "l", "o", "c", "k",
          ".", "j", "s", "o", "n">>,
        <<"*", "*", "/", "p", "n", "p", "m", "-", "l", "o", "c", "k", ".", "y", "a",
          "m", "l">>,
        <<"*", "*", "/", "y", "a", "r", "n", ".", "l", "o", "c", "k">> >>]

\* ShouldExclude on the rules and the paths of the model, evaluated once
TreePaths == DirPaths \cup LinkPaths \cup FilePaths \cup {PANMI, PBZ}

ExcludeTable ==
    [exc \in {DefaultExclude}, path \in TreePaths |-> ShouldExclude(exc, path)]

Excluded(exc, path) ==
    IF exc = DefaultExclude /\ path \in TreePaths THEN ExcludeTable[exc, path]
    ELSE ShouldExclude(exc, path)

\* a walk whose callback returns nil, not SkipDir, for an excluded directory
RECURSIVE WalkDir_NoSkipDir(_, _, _)
WalkDir_NoSkipDir(path, exc, d) ==
    IF EntryIsDir(path)
    THEN LET kids == Children(path)
             F[i \in 0..Len(kids)] ==
                 IF i = 0 THEN [files |-> <<>>, visited |-> {path}]
                 ELSE LET w == WalkDir_NoSkipDir(kids[i], exc, d)
                      IN  [files |-> F[i - 1].files \o w.files,
                           visited |-> F[i - 1].visited \cup w.visited]
         IN  F[Len(kids)]
    ELSE IF ~Exists(d, path) THEN [files |-> <<>>, visited |-> {}]
    ELSE [files |-> IF Excluded(exc, path) THEN <<>> ELSE <<path>>,
          visited |-> {path}]

\* filepath.WalkDir from path with the callback of ExpandDirectory: the files
\* the callback appends, and the paths the callback is called on
RECURSIVE WalkDir(_, _, _)
WalkDir(path, exc, d) ==
    IF EntryIsDir(path)
    THEN IF Excluded(exc, path) THEN [files |-> <<>>, visited |-> {path}]
         ELSE LET kids == Children(path)
                  F[i \in 0..Len(kids)] ==
                      IF i = 0 THEN [files |-> <<>>, visited |-> {path}]
                      ELSE LET w == WalkDir(kids[i], exc, d)
                           IN  [files |-> F[i - 1].files \o w.files,
                                visited |-> F[i - 1].visited \cup w.visited]
              IN  F[Len(kids)]
    ELSE IF ~Exists(d, path) THEN [files |-> <<>>, visited |-> {}]
    ELSE [files |-> IF Excluded(exc, path) THEN <<>> ELSE <<path>>,
          visited |-> {path}]

ExpandDirectory(dir, exc, d) == WalkDir(dir, exc, d).files

----------------------------------------------------------------------------
(* main.go: history store.                                                 *)

maxHistoryEntries == 100

DEFAULT == <<"d", "e", "f", "a", "u", "l", "t">>
YAML == <<".", "y", "a", "m", "l">>

\* the characters of the model in ASCII order
AsciiOrder ==
    <<" ", "\"", "*", "-", ".", "/", ":", "<", ">", "?", "\\", "_",
      "a", "b", "c", "d", "e", "f", "g", "h", "i", "j", "k", "l", "m",
      "n", "o", "p", "q", "r", "s", "t", "u", "v", "w", "x", "y", "z", "|">>

Code(c) == CHOOSE i \in DOMAIN AsciiOrder : AsciiOrder[i] = c

\* Go's < on strings
RECURSIVE StrLess(_, _)
StrLess(s, t) ==
    IF t = <<>> THEN FALSE
    ELSE IF s = <<>> THEN TRUE
    ELSE IF Head(s) = Head(t) THEN StrLess(Tail(s), Tail(t))
    ELSE Code(Head(s)) < Code(Head(t))

ReplaceAll(s, old, new) == [i \in DOMAIN s |-> IF s[i] = old THEN new ELSE s[i]]

unsafe == <<"/", "\\", ":", "*", "?", "\"", "<", ">", "|", " ">>

\* a file name that carries the context name as it is
HistoryEntryFilename_RawName(entry) ==
    [sec |-> entry.Timestamp \div TicksPerSecond, name |-> entry.ContextName]

\* a sanitizeFilename whose list lacks the space
sanitizeFilename_NoSpace(name) ==
    LET R[i \in 0..(Len(unsafe) - 1)] ==
            IF i = 0 THEN name ELSE ReplaceAll(R[i - 1], unsafe[i], "_")
    IN  R[Len(unsafe) - 1]

sanitizeFilename(name) ==
    LET R[i \in 0..Len(unsafe)] ==
            IF i = 0 THEN name ELSE ReplaceAll(R[i - 1], unsafe[i], "_")
    IN  R[Len(unsafe)]

\* the file name without ".yaml": the timestamp at seconds precision (a fixed
\* width field, kept as the number of seconds) and the sanitized name
HistoryEntryFilename(entry) ==
    [sec |-> entry.Timestamp \div TicksPerSecond,
     name |-> sanitizeFilename(entry.ContextName)]

Digits == <<"0", "1", "2", "3", "4", "5", "6", "7", "8", "9">>

TwoDigits(n) == <<Digits[(n \div 10) + 1], Digits[(n % 10) + 1]>>

\* Timestamp.Format("2006-01-02_15-04-05") for the second sec of the model's
\* clock, which starts at noon of one day and stays within it; the date is
\* one token
Format(sec) ==
    LET s == 12 * 3600 + sec
    IN  <<"2025-01-15", "_">> \o TwoDigits(s \div 3600) \o <<"-">>
        \o TwoDigits((s \div 60) % 60) \o <<"-">> \o TwoDigits(s % 60)

\* the characters of the file name
FileName(filename) == Format(filename.sec) \o <<"_">> \o filename.name \o YAML

\* yamlFiles[i].Name() < yamlFiles[j].Name()
NameLess(a, b) ==
    \/ a.sec < b.sec
    \/ a.sec = b.sec /\ StrLess(a.name \o YAML, b.name \o YAML)

\* the order of the storage keys, the names without ".yaml"
KeyLess(a, b) ==
    \/ a.sec < b.sec
    \/ a.sec = b.sec /\ StrLess(a.name, b.name)

\* a prune that sorts the storage keys instead of the file names
PruneHistory_KeyOrder(h) ==
    LET yamlFiles == DOMAIN h
        toDelete == Cardinality(yamlFiles) - maxHistoryEntries
        gone == {k \in yamlFiles :
                    Cardinality({j \in yamlFiles : KeyLess(j, k)}) < toDelete}
    IN  IF Cardinality(yamlFiles) <= maxHistoryEntries THEN h
        ELSE [k \in yamlFiles \ gone |-> h[k]]

\* a prune that compares with maxHistoryEntries + 1
PruneHistory_OffByOne(h) ==
    LET yamlFiles == DOMAIN h
        toDelete == Cardinality(yamlFiles) - (maxHistoryEntries + 1)
        gone == {k \in yamlFiles :
                    Cardinality({j \in yamlFiles : NameLess(j, k)}) < toDelete}
    IN  IF Cardinality(yamlFiles) <= maxHistoryEntries + 1 THEN h
        ELSE [k \in yamlFiles \ gone |-> h[k]]

PruneHistory(h) ==
    LET yamlFiles == DOMAIN h
        toDelete == Cardinality(yamlFiles) - maxHistoryEntries
        \* the first toDelete names of the sorted listing
        gone == {k \in yamlFiles :
                    Cardinality({j \in yamlFiles : NameLess(j, k)}) < toDelete}
    IN  IF Cardinality(yamlFiles) <= maxHistoryEntries THEN h
        ELSE [k \in yamlFiles \ gone |-> h[k]]

\* writeOk: os.WriteFile succeeds; on failure the function returns before pruning
SaveHistoryEntry(h, entry, writeOk) ==
    LET filename == HistoryEntryFilename(entry)
    IN  IF ~writeOk THEN h
        ELSE PruneHistory([k \in DOMAIN h \cup {filename} |->
                              IF k = filename THEN entry ELSE h[k]])

\* the content of a history file that yaml.Unmarshal refuses
Corrupt == [corrupt |-> TRUE]

\* the orders sort.Slice may leave the entries of the files S in: Timestamp
\* descending, entries of one Timestamp in any order
RECURSIVE SortedNewestFirst(_, _)
SortedNewestFirst(h, S) ==
    IF S = {} THEN {<<>>}
    ELSE UNION {{<<h[k]>> \o rest : rest \in SortedNewestFirst(h, S \ {k})} :
                   k \in {k \in S : \A j \in S : h[j].Timestamp <= h[k].Timestamp}}

\* a listing that gives up at the first file that does not parse
ListHistoryEntries_AbortOnCorrupt(h) ==
    IF \E k \in DOMAIN h : h[k] = Corrupt THEN {<<>>}
    ELSE SortedNewestFirst(h, DOMAIN h)

\* the possible results of ListHistoryEntries
ListHistoryEntries(h) ==
    SortedNewestFirst(h, {k \in DOMAIN h : h[k] # Corrupt})

----------------------------------------------------------------------------
(* context.go: the context store.                                          *)

SaveContext(st, ctx, writeOk) ==
    IF ~writeOk THEN st
    ELSE [n \in DOMAIN st \cup {ctx.Name} |-> IF n = ctx.Name THEN ctx ELSE st[n]]

\* the error LoadContext returns when os.ReadFile finds no file
NoContext == [none |-> TRUE]

LoadContext(st, name) == IF name \in DOMAIN st THEN st[name] ELSE NoContext

\* os.ReadDir returns the entries sorted by file name
ListContexts(st) ==
    CHOOSE names \in [1..Cardinality(DOMAIN st) -> DOMAIN st] :
        \A i, j \in DOMAIN names : i < j => StrLess(names[i] \o YAML, names[j] \o YAML)

\* os.Remove: the store without the file, or the store as it is on an error
DeleteContext(st, name, removeOk) ==
    IF ~removeOk \/ name \notin DOMAIN st THEN st
    ELSE [n \in DOMAIN st \ {name} |-> st[n]]

----------------------------------------------------------------------------
(* main.go: the file pane.                                                 *)

Size(d, path) == IF Exists(d, path) THEN Len(Content(path)) ELSE 0

\* Project and RelPath are display strings and are left out
buildFileInfo(path, d) ==
    [Path |-> path, Size |-> Size(d, path), Exists |-> Exists(d, path),
     Selected |-> FALSE]

\* sort.Slice is not stable: every arrangement with sizes descending is a
\* possible outcome
SortedBySize(infos) ==
    {[i \in DOMAIN infos |-> infos[p[i]]] : p \in
        {q \in Permutations(DOMAIN infos) :
            \A i, j \in DOMAIN infos : i < j => infos[q[i]].Size >= infos[q[j]].Size}}

\* refreshFolders: the parent directories of the files, each once, sorted
\* by path and not selected
refreshFolders(files) ==
    LET dirs == {Dir(Clean(files[i].Path)) : i \in DOMAIN files}
        sorted == CHOOSE q \in [1..Cardinality(dirs) -> dirs] :
                      \A i, j \in DOMAIN q : i < j => StrLess(q[i], q[j])
    IN  [i \in DOMAIN sorted |->
            [Path |-> sorted[i], Selected |-> FALSE,
             FileCount |-> Cardinality({k \in DOMAIN files :
                                           Dir(Clean(files[k].Path)) = sorted[i]})]]

\* the possible models after refreshFiles
refreshFiles(mm, d) ==
    LET infos == [i \in DOMAIN mm.context.Files |->
                     buildFileInfo(mm.context.Files[i], d)]
    IN  {[mm EXCEPT !.files = fs, !.folders = refreshFolders(fs)] :
            fs \in SortedBySize(infos)}

selectedCount(mm) == Cardinality({i \in DOMAIN mm.files : mm.files[i].Selected})

Paths(files) == [i \in DOMAIN files |-> files[i].Path]

Msg(text, n) == [msg |-> text, n |-> n]

----------------------------------------------------------------------------
(* main.go: processPaste.  Each operation yields the set of its possible   *)
(* outcomes [m, store, status, failed]; status is the argument of its      *)
(* setStatus call, NoMsg when it makes none; failed tells that an I/O      *)
(* operation of the call failed.                                           *)

NoMsg == Msg("", 0)

Outcome(mm, st, stat) == [m |-> mm, store |-> st, status |-> stat, failed |-> FALSE]

Failure(mm, st, stat) == [m |-> mm, store |-> st, status |-> stat, failed |-> TRUE]

\* for _, f := range files { if m.context.AddFile(f) { added++ } }
RECURSIVE AddAll(_, _, _)
AddAll(files, paths, added) ==
    IF paths = <<>> THEN [Files |-> files, added |-> added]
    ELSE LET r == AddFile(files, Head(paths))
         IN  AddAll(r.Files, Tail(paths), IF r.ok THEN added + 1 ELSE added)

\* an add loop that counts every expanded path
AddExpanded_CountsAll(files, paths) ==
    [Files |-> AddAll(files, paths, 0).Files, added |-> Len(paths)]

\* added := 0, then the loop
AddExpanded(files, paths) == AddAll(files, paths, 0)

\* an error return that keeps the files visited before the error
ExpandFailed_KeepsVisited(mm, st, d, input) ==
    LET seen == ExpandDirectory(input, mm.exclude, d)
        r == AddExpanded(mm.context.Files, SubSeq(seen, 1, 1))
    IN  {Failure([mm EXCEPT !.context.Files = r.Files], st, Msg("Error expanding", 0))}

\* files, err := ExpandDirectory(...); if err != nil: files is dropped
ExpandFailed(mm, st, d, input) == {Failure(mm, st, Msg("Error expanding", 0))}

processPaste(mm, st, d, raw, walkOk, saveOk) ==
    LET input == TrimSpace(raw)
    IN  IF input = <<>> THEN {Outcome(mm, st, NoMsg)}
        ELSE IF ~HasPrefix(input, <<"/">>)
        THEN {Outcome(mm, st, Msg("Not a valid path", 0))}
        ELSE IF ~Exists(d, input)
        THEN {Outcome(mm, st, Msg("Path not found", 0))}
        ELSE IF IsDir(input)
        THEN IF ~walkOk THEN ExpandFailed(mm, st, d, input)
             ELSE LET r == AddExpanded(mm.context.Files, ExpandDirectory(input, mm.exclude, d))
                      m1 == [mm EXCEPT !.context.Files = r.Files]
                  IN  IF ~saveOk THEN {Failure(m1, st, Msg("Error saving", 0))}
                      ELSE {Outcome(m2, SaveContext(st, m1.context, TRUE),
                                    Msg("Added files from directory", r.added)) :
                                m2 \in refreshFiles(m1, d)}
        ELSE LET r == AddFile(mm.context.Files, input)
                 m1 == [mm EXCEPT !.context.Files = r.Files]
             IN  IF ~r.ok THEN {Outcome(mm, st, Msg("Already in context", 0))}
                 ELSE IF ~saveOk THEN {Failure(m1, st, Msg("Error saving", 0))}
                 ELSE {Outcome(m2, SaveContext(st, m1.context, TRUE), Msg("File added", 0)) :
                           m2 \in refreshFiles(m1, d)}

----------------------------------------------------------------------------
(* main.go: yank.  The document is the sequence of characters written to   *)
(* the strings.Builder; the preamble and each literal tag are one token.   *)

Preamble == <<"PREAMBLE">>

\* a block that always adds a newline after the text
TextBlock_AlwaysNewline(open, text, close) ==
    IF text = <<>> THEN <<>>
    ELSE <<open, NL>> \o text \o <<NL>> \o <<close, NL, NL>>

TextBlock(open, text, close) ==
    IF text = <<>> THEN <<>>
    ELSE <<open, NL>> \o text
         \o (IF ~HasSuffix(text, <<NL>>) THEN <<NL>> ELSE <<>>)
         \o <<close, NL, NL>>

\* a display path that strips the root without a separator after it
DisplayPath_NoSeparator(path, ProjectRoot) ==
    IF ProjectRoot # <<>> /\ HasPrefix(path, ProjectRoot)
    THEN TrimPrefix(path, ProjectRoot) ELSE path

DisplayPath(path, ProjectRoot) ==
    IF ProjectRoot # <<>>
    THEN LET root == IF ~HasSuffix(ProjectRoot, <<"/">>)
                     THEN ProjectRoot \o <<"/">> ELSE ProjectRoot
         IN  IF HasPrefix(path, root) THEN TrimPrefix(path, root) ELSE path
    ELSE path

\* a file block that adds a newline after every content
FileBlock_AlwaysNewline(displayPath, content) ==
    <<"<file path=\"">> \o displayPath \o <<"\">", NL>> \o content \o <<NL>>
    \o <<"</file>", NL, NL>>

FileBlock(displayPath, content) ==
    <<"<file path=\"">> \o displayPath \o <<"\">", NL>> \o content
    \o (IF Len(content) > 0 /\ content[Len(content)] # NL THEN <<NL>> ELSE <<>>)
    \o <<"</file>", NL, NL>>

\* a header with the request before the project context
Header_RequestFirst(ctx) ==
    Preamble
    \o TextBlock("<request>", ctx.Request, "</request>")
    \o TextBlock("<project_context>", ctx.ProjectContext, "</project_context>")

Header(ctx) ==
    Preamble
    \o TextBlock("<project_context>", ctx.ProjectContext, "</project_context>")
    \o TextBlock("<request>", ctx.Request, "</request>")

\* the loop over m.files: entries flagged missing and files that cannot be
\* read are skipped
RECURSIVE WriteFiles(_, _, _)
WriteFiles(files, ProjectRoot, d) ==
    IF files = <<>> THEN <<>>
    ELSE LET f == Head(files)
             rest == WriteFiles(Tail(files), ProjectRoot, d)
         IN  IF ~f.Exists \/ ~Exists(d, f.Path) THEN rest
             ELSE FileBlock(DisplayPath(f.Path, ProjectRoot), Content(f.Path)) \o rest

NotCopied == <<>>

\* a yank that records the files in the order of the context's list
yank_ContextOrder(mm, d, h, t, clipOk, histOk) ==
    LET missing == SelectSeq(mm.files, LAMBDA f : ~f.Exists)
        doc == Header(mm.context) \o WriteFiles(mm.files, mm.context.ProjectRoot, d)
        entry == [Timestamp |-> t, ContextName |-> mm.context.Name,
                  ProjectContext |-> mm.context.ProjectContext,
                  Request |-> mm.context.Request, Files |-> mm.context.Files]
    IN  IF Len(missing) > 0
        THEN [copied |-> NotCopied, hist |-> h, failed |-> FALSE,
              status |-> Msg("Warning: file(s) missing", Len(missing))]
        ELSE IF ~clipOk
        THEN [copied |-> NotCopied, hist |-> h, failed |-> TRUE,
              status |-> Msg("Clipboard error", 0)]
        ELSE [copied |-> doc, hist |-> SaveHistoryEntry(h, entry, histOk),
              failed |-> ~histOk, status |-> Msg("Yanked", Len(mm.files))]

\* the outcome [copied, hist, status, failed] of yank at time t; copied is the
\* text CopyToClipboard took, NotCopied when it took none
yank(mm, d, h, t, clipOk, histOk) ==
    LET missing == SelectSeq(mm.files, LAMBDA f : ~f.Exists)
        doc == Header(mm.context) \o WriteFiles(mm.files, mm.context.ProjectRoot, d)
        entry == [Timestamp |-> t, ContextName |-> mm.context.Name,
                  ProjectContext |-> mm.context.ProjectContext,
                  Request |-> mm.context.Request, Files |-> Paths(mm.files)]
    IN  IF Len(missing) > 0
        THEN [copied |-> NotCopied, hist |-> h, failed |-> FALSE,
              status |-> Msg("Warning: file(s) missing", Len(missing))]
        ELSE IF ~clipOk
        THEN [copied |-> NotCopied, hist |-> h, failed |-> TRUE,
              status |-> Msg("Clipboard error", 0)]
        ELSE [copied |-> doc, hist |-> SaveHistoryEntry(h, entry, histOk),
              failed |-> ~histOk, status |-> Msg("Yanked", Len(mm.files))]

----------------------------------------------------------------------------
(* main.go: deleteSelected.  cursor is the Go index (from 0); an index     *)
(* outside m.files panics and ends the program.                            *)

\* a deleteSelected that takes the cursor as an index into the context's
\* file list instead of the displayed one
deleteSelected_ContextIndex(mm, st, d, saveOk) ==
    LET selected == selectedCount(mm)
        toRemove == Paths(SelectSeq(mm.files, LAMBDA f : f.Selected))
    IN  IF selected = 0 /\ mm.cursor < Len(mm.files) /\ mm.cursor < 0
        THEN {Outcome([mm EXCEPT !.crashed = TRUE], st, NoMsg)}
        ELSE LET newFiles ==
                     IF selected > 0 THEN RemoveFiles(mm.context.Files, toRemove)
                     ELSE IF mm.cursor < Len(mm.context.Files)
                     THEN RemoveFile(mm.context.Files, mm.context.Files[mm.cursor + 1])
                     ELSE mm.context.Files
                 m1 == [mm EXCEPT !.context.Files = newFiles]
             IN  IF ~saveOk THEN {Failure(m1, st, Msg("Error saving", 0))}
                 ELSE {Outcome(
                           [m2 EXCEPT !.cursor =
                               IF m2.cursor >= Len(m2.files) /\ m2.cursor > 0
                               THEN Len(m2.files) - 1 ELSE m2.cursor],
                           SaveContext(st, m1.context, TRUE),
                           IF selected > 0 THEN Msg("Deleted files", selected)
                           ELSE Msg("Deleted file", 0)) :
                       m2 \in refreshFiles(m1, d)}

deleteSelected(mm, st, d, saveOk) ==
    LET selected == selectedCount(mm)
        toRemove == Paths(SelectSeq(mm.files, LAMBDA f : f.Selected))
    IN  IF selected = 0 /\ mm.cursor < Len(mm.files) /\ mm.cursor < 0
        \* m.files[m.cursor] with a negative index
        THEN {Outcome([mm EXCEPT !.crashed = TRUE], st, NoMsg)}
        ELSE LET newFiles ==
                     IF selected > 0 THEN RemoveFiles(mm.context.Files, toRemove)
                     ELSE IF mm.cursor < Len(mm.files)
                     THEN RemoveFile(mm.context.Files, mm.files[mm.cursor + 1].Path)
                     ELSE mm.context.Files
                 m1 == [mm EXCEPT !.context.Files = newFiles]
             IN  IF ~saveOk THEN {Failure(m1, st, Msg("Error saving", 0))}
                 ELSE {Outcome(
                           [m2 EXCEPT !.cursor =
                               IF m2.cursor >= Len(m2.files) /\ m2.cursor > 0
                               THEN Len(m2.files) - 1 ELSE m2.cursor],
                           SaveContext(st, m1.context, TRUE),
                           IF selected > 0 THEN Msg("Deleted files", selected)
                           ELSE Msg("Deleted file", 0)) :
                       m2 \in refreshFiles(m1, d)}

----------------------------------------------------------------------------
(* The program: state after initialModel, and one action per event.        *)

modeNormal == "modeNormal"
modeFolderView == "modeFolderView"
modeContextSelect == "modeContextSelect"
modeExcludeSelect == "modeExcludeSelect"
modeNewContext == "modeNewContext"
modeEditBox == "modeEditBox"
modeConfirmDeleteCtx == "modeConfirmDeleteCtx"
tabContext == "tabContext"
tabHistory == "tabHistory"
boxRequest == 0
boxFiles == 1
boxProjectContext == 2

\* the texts typed, and the project_root written to default.yaml, in earlier runs
InitContexts ==
    {[Name |-> DEFAULT, ProjectRoot |-> <<>>, ProjectContext |-> <<>>,
      Request |-> <<"r", NL>>, Files |-> <<>>],
     [Name |-> DEFAULT, ProjectRoot |-> DA, ProjectContext |-> <<"p">>,
      Request |-> <<>>, Files |-> <<>>]}

DefaultConfig == [ActiveContext |-> DEFAULT, ActiveExclude |-> DEFAULT]

initialModel(config, ctx, contexts, exc) ==
    [config |-> config, context |-> ctx, contexts |-> contexts, exclude |-> exc,
     files |-> <<>>, cursor |-> 0, mode |-> modeNormal, activeTab |-> tabContext,
     activeBox |-> boxRequest, editingBox |-> 0 - 1, textArea |-> <<>>,
     selectItems |-> <<>>, selectCursor |-> 0, deleteTarget |-> <<>>,
     inputBuffer |-> <<>>, historyEntries |-> <<>>, historyCursor |-> 0,
     folders |-> <<>>, folderCursor |-> 0,
     crashed |-> FALSE]

Event(op, stat) == [op |-> op, input |-> <<>>, status |-> stat, copied |-> NotCopied]

Init ==
    /\ \E ctx \in InitContexts :
          /\ store = [n \in {DEFAULT} |-> ctx]
          /\ m \in refreshFiles(initialModel(DefaultConfig, ctx, <<DEFAULT>>, DefaultExclude),
                                [p \in FilePaths |-> TRUE])
    /\ cfg = DefaultConfig
    /\ disk = [p \in FilePaths |-> TRUE]
    /\ hist = <<>>
    /\ now = 0
    /\ faults = 0
    /\ ev = Event("start", NoMsg)

PasteInputs == {PAX, <<" ">> \o PASY \o <<NL>>, DA, DAS, PNONE, PREL, <<" ", NL>>}

Running == ~m.crashed

\* the results an I/O operation may have now
IoResults == IF faults < MaxFaults THEN BOOLEAN ELSE {TRUE}

Counted(failed) == faults' = IF failed THEN faults + 1 ELSE faults

InContextTab == Running /\ m.mode = modeNormal /\ m.activeTab = tabContext

\* Update: a bracketed paste of one of the texts of inputs in normal mode
PasteOf(inputs) ==
    /\ Running /\ m.mode = modeNormal
    /\ \E raw \in inputs, walkOk \in IoResults, saveOk \in IoResults :
         \E r \in processPaste(m, store, disk, raw, walkOk, saveOk) :
            /\ m' = r.m /\ store' = r.store /\ Counted(r.failed)
            /\ ev' = [Event("paste", r.status) EXCEPT !.input = raw]
    /\ UNCHANGED <<cfg, disk, hist>>

Paste == PasteOf(PasteInputs) /\ UNCHANGED now

\* handleNormalKey "y" on the context tab; t is what time.Now() returns, and
\* the clock is read only when a history entry is built
YankAt(t) ==
    /\ InContextTab
    /\ \E clipOk \in IoResults, histOk \in IoResults :
         LET r == yank(m, disk, hist, t, clipOk, histOk)
         IN  /\ hist' = r.hist /\ Counted(r.failed)
             /\ ev' = [Event("yank", r.status) EXCEPT !.copied = r.copied]
    /\ UNCHANGED <<m, store, cfg, disk>>

KeyYank ==
    \E t \in now..MaxTime :
        /\ YankAt(t)
        /\ now' = IF ev'.copied = NotCopied THEN now ELSE t

\* handleNormalKey "d"
DeleteKey ==
    /\ Running /\ m.mode = modeNormal
    /\ \E saveOk \in IoResults :
         \E r \in deleteSelected(m, store, disk, saveOk) :
            /\ m' = r.m /\ store' = r.store /\ Counted(r.failed)
            /\ ev' = Event("delete", r.status)
    /\ UNCHANGED <<cfg, disk, hist>>

KeyDelete == DeleteKey /\ UNCHANGED now

\* handleNormalKey "D": clear all files; the result of SaveContext is dropped
ClearAllKey ==
    /\ Running /\ m.mode = modeNormal
    /\ \E saveOk \in IoResults :
         LET m1 == [m EXCEPT !.context.Files = <<>>]
         IN  /\ store' = SaveContext(store, m1.context, saveOk)
             /\ Counted(~saveOk)
             /\ \E m2 \in refreshFiles(m1, disk) : m' = [m2 EXCEPT !.cursor = 0]
    /\ ev' = Event("clear", NoMsg)
    /\ UNCHANGED <<cfg, disk, hist>>

KeyClearAll == ClearAllKey /\ UNCHANGED now

\* handleNormalKey " ": toggle the selection of the file at the cursor
KeySpace ==
    /\ Running /\ m.mode = modeNormal
    /\ m.cursor < Len(m.files)
    /\ IF m.cursor < 0 THEN m' = [m EXCEPT !.crashed = TRUE]
       ELSE m' = [m EXCEPT !.files[m.cursor + 1].Selected = ~@]
    /\ ev' = Event("space", NoMsg)
    /\ UNCHANGED <<store, cfg, disk, hist, now, faults>>

\* handleNormalKey "*": select all, or deselect all when all are selected
KeyStar ==
    /\ Running /\ m.mode = modeNormal
    /\ Len(m.files) > 0
    /\ LET allSelected == \A i \in DOMAIN m.files : m.files[i].Selected
       IN  m' = [m EXCEPT !.files =
                    [i \in DOMAIN m.files |-> [m.files[i] EXCEPT !.Selected = ~allSelected]]]
    /\ ev' = Event("star", NoMsg)
    /\ UNCHANGED <<store, cfg, disk, hist, now, faults>>

\* handleNormalKey "up"/"k" and "down"/"j" on the context tab
KeyUp ==
    /\ InContextTab
    /\ m.cursor > 0
    /\ m' = [m EXCEPT !.cursor = @ - 1]
    /\ ev' = Event("up", NoMsg)
    /\ UNCHANGED <<store, cfg, disk, hist, now, faults>>

KeyDown ==
    /\ InContextTab
    /\ m.cursor < Len(m.files) - 1
    /\ m' = [m EXCEPT !.cursor = @ + 1]
    /\ ev' = Event("down", NoMsg)
    /\ UNCHANGED <<store, cfg, disk, hist, now, faults>>

\* the environment: a file of the user is removed or comes back
DiskChange ==
    /\ \E p \in FilePaths :
         /\ disk' = [disk EXCEPT ![p] = ~@]
         /\ Cardinality({q \in FilePaths : ~disk'[q]}) <= MaxMissing
    /\ ev' = Event("env", NoMsg)
    /\ UNCHANGED <<m, store, cfg, hist, now, faults>>

\* the program with its file list, yank and history, and the user's disk
Next ==
    \/ Paste
    \/ KeyYank
    \/ KeyDelete
    \/ KeyClearAll
    \/ DiskChange

Spec == Init /\ [][Next]_vars

\* the file pane alone: cursor and selection keys, no yank, a quiet disk
NextPane ==
    \/ Paste
    \/ KeyDelete
    \/ KeyClearAll
    \/ KeySpace
    \/ KeyStar
    \/ KeyUp
    \/ KeyDown

SpecPane == Init /\ [][NextPane]_vars

----------------------------------------------------------------------------
(* The Context methods driven directly, on any file list a context file    *)
(* can hold (LoadContext does not check the list it reads).                *)

Frozen ==
    /\ store = [n \in {DEFAULT} |-> [Name |-> DEFAULT, ProjectRoot |-> <<>>,
                  ProjectContext |-> <<>>, Request |-> <<>>, Files |-> <<>>]]
    /\ cfg = DefaultConfig
    /\ disk = [p \in FilePaths |-> TRUE]
    /\ now = 0
    /\ faults = 0

ModelWith(files) ==
    initialModel(DefaultConfig,
                 [Name |-> DEFAULT, ProjectRoot |-> <<>>, ProjectContext |-> <<>>,
                  Request |-> <<>>, Files |-> files],
                 <<DEFAULT>>, DefaultExclude)

InitCtx ==
    /\ Frozen
    /\ hist = <<>>
    /\ \E files \in SeqsUpTo(CtxPaths, MaxLen) : m = ModelWith(files)
    /\ ev = [op |-> "start"]

\* ok := ctx.AddFile(path)
CallAddFile ==
    /\ \E path \in CtxPaths :
         LET r == AddFile(m.context.Files, path)
         IN  /\ m' = [m EXCEPT !.context.Files = r.Files]
             /\ ev' = [op |-> "AddFile", old |-> m.context.Files, path |-> path,
                       ret |-> r.ok]
    /\ UNCHANGED <<store, cfg, disk, hist, now, faults>>

\* ctx.RemoveFile(path)
CallRemoveFile ==
    /\ \E path \in CtxPaths :
         /\ m' = [m EXCEPT !.context.Files = RemoveFile(@, path)]
         /\ ev' = [op |-> "RemoveFile", old |-> m.context.Files, path |-> path]
    /\ UNCHANGED <<store, cfg, disk, hist, now, faults>>

\* ctx.RemoveFiles(paths)
CallRemoveFiles ==
    /\ \E paths \in SeqsUpTo(CtxPaths, MaxLen) :
         /\ m' = [m EXCEPT !.context.Files = RemoveFiles(@, paths)]
         /\ ev' = [op |-> "RemoveFiles", old |-> m.context.Files, paths |-> paths]
    /\ UNCHANGED <<store, cfg, disk, hist, now, faults>>

NextCtx ==
    \/ CallAddFile
    \/ CallRemoveFile
    \/ CallRemoveFiles

SpecCtx == InitCtx /\ [][NextCtx]_vars

\* AddFile alone, from the duplicate-free lists
InitAdd ==
    /\ Frozen
    /\ hist = <<>>
    /\ \E files \in {f \in SeqsUpTo(CtxPaths, MaxLen) : NoDup(f)} : m = ModelWith(files)
    /\ ev = [op |-> "start"]

NextAdd == CallAddFile

SpecAdd == InitAdd /\ [][NextAdd]_vars

----------------------------------------------------------------------------
(* The history store driven directly, from a directory that holds up to    *)
(* maxHistoryEntries entries of earlier runs.                              *)

HistNames == {DEFAULT, <<"a", " ">>, <<"a", "_">>}

\* the entries of earlier runs, one per second before the clock starts
OldEntry(k) ==
    [Timestamp |-> 0 - k * TicksPerSecond, ContextName |-> DEFAULT,
     ProjectContext |-> <<>>, Request |-> <<>>, Files |-> <<>>]

OldHistory(n) ==
    [key \in {HistoryEntryFilename(OldEntry(k)) : k \in 1..n} |->
        OldEntry(0 - key.sec)]

\* two yanks of one second, of the contexts "a" and then "a-", are the oldest
\* entries of a full directory
OldPair ==
    LET sec == 0 - (maxHistoryEntries - 1)
        e1 == [OldEntry(0 - sec) EXCEPT !.ContextName = <<"a">>]
        e2 == [OldEntry(0 - sec) EXCEPT !.ContextName = <<"a", "-">>,
                                        !.Timestamp = @ + 1]
    IN  (HistoryEntryFilename(e1) :> e1) @@ (HistoryEntryFilename(e2) :> e2)

PairHistory == OldHistory(maxHistoryEntries - 2) @@ OldPair

InitHist ==
    /\ Frozen
    /\ m = ModelWith(<<>>)
    /\ hist \in {OldHistory(0), OldHistory(maxHistoryEntries - 1),
                 OldHistory(maxHistoryEntries), PairHistory}
    /\ ev = [op |-> "start"]

\* no file of that name
NoEntry == [none |-> TRUE]

\* SaveHistoryEntry(entry) with entry.Timestamp = time.Now()
CallSaveHistoryEntry ==
    /\ \E name \in HistNames, t \in now..HistMaxTime, writeOk \in BOOLEAN :
         LET entry == [Timestamp |-> t, ContextName |-> name, ProjectContext |-> <<>>,
                       Request |-> <<>>, Files |-> <<>>]
         IN  /\ hist' = SaveHistoryEntry(hist, entry, writeOk)
             /\ now' = t
             /\ ev' = [op |-> "SaveHistoryEntry", entry |-> entry, wrote |-> writeOk,
                       before |-> Cardinality(DOMAIN hist),
                       isNew |-> HistoryEntryFilename(entry) \notin DOMAIN hist,
                       old |-> IF HistoryEntryFilename(entry) \in DOMAIN hist
                               THEN hist[HistoryEntryFilename(entry)] ELSE NoEntry]
    /\ UNCHANGED <<m, store, cfg, disk, faults>>

NextHist == CallSaveHistoryEntry

SpecHist == InitHist /\ [][NextHist]_vars

----------------------------------------------------------------------------
(* The history store saved to and listed, from a small directory that may  *)
(* hold a file that does not parse.                                        *)

CorruptFile == HistoryEntryFilename(OldEntry(2)) :> Corrupt

InitList ==
    /\ Frozen
    /\ m = ModelWith(<<>>)
    /\ hist \in {OldHistory(0), CorruptFile, OldHistory(1) @@ CorruptFile}
    /\ ev = [op |-> "start"]

\* entries, err := ListHistoryEntries()
CallListHistoryEntries ==
    /\ \E ret \in ListHistoryEntries(hist) :
         ev' = [op |-> "ListHistoryEntries", ret |-> ret]
    /\ UNCHANGED <<m, store, cfg, disk, hist, now, faults>>

NextList ==
    \/ CallSaveHistoryEntry
    \/ CallListHistoryEntries

SpecList == InitList /\ [][NextList]_vars

----------------------------------------------------------------------------
(* The functions of the exclude rules, of the file names and of the        *)
(* document, applied to inputs drawn from small sets.                      *)

PNM == <<"*", "*", "/">> \o SubSeq(DANM, 4, Len(DANM)) \o <<"/", "*", "*">>
PNMDIR == <<"*", "*", "/">> \o SubSeq(DANM, 4, Len(DANM))
PatternPool ==
    {PNM, PNMDIR, <<"x">>, <<"/", "a", "/", "*">>, <<"?">>, <<"[", "s", "y", "]">>,
     <<"[", "x">>}

Rules == {[Name |-> DEFAULT, Patterns |-> ps] : ps \in SeqsUpTo(PatternPool, MaxLen)}

PAS2 == <<"/", "a", "s">>                     \* /as, next to the directory /a

NameChars == Range(unsafe) \cup {"a", "_"}

InitFn ==
    /\ Frozen
    /\ hist = <<>>
    /\ m = ModelWith(<<>>)
    /\ ev = [op |-> "start"]

\* each behaviour applies one function to one input
NotApplied == ev.op = "start"

ApplyShouldExclude ==
    /\ NotApplied
    /\ \E rule \in Rules, path \in TreePaths :
         ev' = [op |-> "ShouldExclude", rule |-> rule, path |-> path,
                ret |-> ShouldExclude(rule, path)]
    /\ UNCHANGED <<m, store, cfg, disk, hist, now, faults>>

ApplyExpandDirectory ==
    /\ NotApplied
    /\ \E rule \in Rules, dir \in DirPaths \cup LinkPaths :
         ev' = [op |-> "ExpandDirectory", rule |-> rule, dir |-> dir,
                ret |-> ExpandDirectory(dir, rule, disk),
                visited |-> WalkDir(dir, rule, disk).visited]
    /\ UNCHANGED <<m, store, cfg, disk, hist, now, faults>>

ApplyDisplayPath ==
    /\ NotApplied
    /\ \E root \in {<<>>, <<"/">>, DA, DA \o <<"/">>, DAS, DB},
          path \in {PAX, PASY, PBZ, PAS2, DA, DA \o <<"/">>} :
         ev' = [op |-> "DisplayPath", root |-> root, path |-> path,
                ret |-> DisplayPath(path, root)]
    /\ UNCHANGED <<m, store, cfg, disk, hist, now, faults>>

ApplyTextBlock ==
    /\ NotApplied
    /\ \E text \in SeqsUpTo({"t", NL}, MaxLen + 1),
          tag \in {<<"<request>", "</request>">>,
                   <<"<project_context>", "</project_context>">>} :
         ev' = [op |-> "TextBlock", text |-> text, open |-> tag[1], close |-> tag[2],
                ret |-> TextBlock(tag[1], text, tag[2])]
    /\ UNCHANGED <<m, store, cfg, disk, hist, now, faults>>

ApplyHistoryEntryFilename ==
    /\ NotApplied
    /\ \E name \in SeqsUpTo(NameChars, MaxLen), t \in 0..HistMaxTime :
         LET entry == [Timestamp |-> t, ContextName |-> name, ProjectContext |-> <<>>,
                       Request |-> <<>>, Files |-> <<>>]
         IN  ev' = [op |-> "HistoryEntryFilename", entry |-> entry,
                    ret |-> FileName(HistoryEntryFilename(entry))]
    /\ UNCHANGED <<m, store, cfg, disk, hist, now, faults>>

ApplyFileBlock ==
    /\ NotApplied
    /\ \E content \in SeqsUpTo({"c", NL}, MaxLen + 1), path \in {PAX, <<"x">>} :
         ev' = [op |-> "FileBlock", path |-> path, content |-> content,
                ret |-> FileBlock(path, content)]
    /\ UNCHANGED <<m, store, cfg, disk, hist, now, faults>>

NextFn ==
    \/ ApplyShouldExclude
    \/ ApplyExpandDirectory
    \/ ApplyDisplayPath
    \/ ApplyTextBlock
    \/ ApplyHistoryEntryFilename
    \/ ApplyFileBlock

SpecFn == InitFn /\ [][NextFn]_vars

----------------------------------------------------------------------------
(* main.go: a session at the keyboard.  Every key press and every paste    *)
(* takes one tick of the clock; the handler reads the time of its event.   *)

NEWCTX == <<"[+] New context">>
W == <<"w">>

\* ~/.ctx/excludes/ holds the rule "default" alone
ListExcludeRules == <<DEFAULT>>

LoadExcludeRule(name) == DefaultExclude

\* the contexts a session starts with
SessionContexts ==
    (DEFAULT :> [Name |-> DEFAULT, ProjectRoot |-> <<>>, ProjectContext |-> <<>>,
                 Request |-> <<"r", NL>>, Files |-> <<>>])
    @@ (W :> [Name |-> W, ProjectRoot |-> <<>>, ProjectContext |-> <<"p">>,
              Request |-> <<>>, Files |-> <<PASY>>])

\* what the text area can hold after the user typed in it
EditTexts == {<<>>, <<"q">>}

\* the characters typed into the name of a new context
NewNameChars == {"w"}

InitSession ==
    /\ store = SessionContexts
    /\ disk = [p \in FilePaths |-> TRUE]
    /\ m \in refreshFiles(initialModel(DefaultConfig, LoadContext(store, DEFAULT),
                                       ListContexts(store), DefaultExclude), disk)
    /\ cfg = DefaultConfig
    /\ hist = <<>>
    /\ now = 0
    /\ faults = 0
    /\ ev = Event("start", NoMsg)

Tick == now < SessionLen /\ now' = now + 1

\* switchToContext; SaveConfig's result is dropped.  The outcomes [m, cfg]
switchToContext(mm, st, c, d, name, cfgOk) ==
    LET ctx == LoadContext(st, name)
    IN  IF ctx = NoContext THEN {[m |-> mm, cfg |-> c]}
        ELSE LET m1 == [mm EXCEPT !.context = ctx, !.config.ActiveContext = name]
             IN  {[m |-> [m2 EXCEPT !.cursor = 0],
                   cfg |-> IF cfgOk THEN m1.config ELSE c] : m2 \in refreshFiles(m1, d)}

\* a replay that stops reading at the first file it cannot read
RECURSIVE ReplayFiles_StopAtUnreadable(_, _)
ReplayFiles_StopAtUnreadable(paths, d) ==
    IF paths = <<>> THEN <<>>
    ELSE IF ~Exists(d, Head(paths)) \/ IsDir(Head(paths)) THEN <<>>
    ELSE FileBlock(Head(paths), Content(Head(paths)))
         \o ReplayFiles_StopAtUnreadable(Tail(paths), d)

\* the blocks of the files of a history entry, read from disk now; a file
\* that cannot be read is skipped
RECURSIVE ReplayFiles(_, _)
ReplayFiles(paths, d) ==
    IF paths = <<>> THEN <<>>
    ELSE IF ~Exists(d, Head(paths)) \/ IsDir(Head(paths)) THEN ReplayFiles(Tail(paths), d)
    ELSE FileBlock(Head(paths), Content(Head(paths))) \o ReplayFiles(Tail(paths), d)

\* a replay that stores the entry again with the texts of the active context
yankHistoryEntry_Restore(mm, d, h, clipOk) ==
    IF Len(mm.historyEntries) = 0 \/ mm.historyCursor >= Len(mm.historyEntries)
    THEN [copied |-> NotCopied, hist |-> h, failed |-> FALSE,
          status |-> Msg("No history entry selected", 0)]
    ELSE LET entry == mm.historyEntries[mm.historyCursor + 1]
             doc == Header(entry) \o ReplayFiles(entry.Files, d)
             again == [entry EXCEPT !.Request = mm.context.Request,
                                    !.ProjectContext = mm.context.ProjectContext]
         IN  IF ~clipOk
             THEN [copied |-> NotCopied, hist |-> h, failed |-> TRUE,
                   status |-> Msg("Clipboard error", 0)]
             ELSE [copied |-> doc, hist |-> SaveHistoryEntry(h, again, TRUE),
                   failed |-> FALSE,
                   status |-> Msg("Yanked history entry", Len(entry.Files))]

\* the outcome [copied, hist, status, failed] of yankHistoryEntry
yankHistoryEntry(mm, d, h, clipOk) ==
    IF Len(mm.historyEntries) = 0 \/ mm.historyCursor >= Len(mm.historyEntries)
    THEN [copied |-> NotCopied, hist |-> h, failed |-> FALSE,
          status |-> Msg("No history entry selected", 0)]
    ELSE LET entry == mm.historyEntries[mm.historyCursor + 1]
             doc == Header(entry) \o ReplayFiles(entry.Files, d)
         IN  IF ~clipOk
             THEN [copied |-> NotCopied, hist |-> h, failed |-> TRUE,
                   status |-> Msg("Clipboard error", 0)]
             ELSE [copied |-> doc, hist |-> h, failed |-> FALSE,
                   status |-> Msg("Yanked history entry", Len(entry.Files))]

InNormalMode == Running /\ m.mode = modeNormal

SessionPaste == Tick /\ PasteOf({PAX})

\* the pastes of a session on the file list: a file and a directory
SessionInputs == {PAX, DAS}

FilesPaste == Tick /\ PasteOf(SessionInputs)

SessionYank == Tick /\ YankAt(now)

SessionDelete == Tick /\ DeleteKey

SessionClearAll == Tick /\ ClearAllKey

\* handleNormalKey "f": the folder view
KeyFolderView ==
    /\ Tick
    /\ InNormalMode
    /\ m' = [m EXCEPT !.mode = modeFolderView, !.folderCursor = 0]
    /\ ev' = Event("f", NoMsg)
    /\ UNCHANGED <<store, cfg, disk, hist, faults>>

\* handleFolderKey "f"/"esc", "up", "down", " "
FolderEsc ==
    /\ Tick
    /\ Running /\ m.mode = modeFolderView
    /\ m' = [m EXCEPT !.mode = modeNormal]
    /\ ev' = Event("esc", NoMsg)
    /\ UNCHANGED <<store, cfg, disk, hist, faults>>

FolderUp ==
    /\ Tick
    /\ Running /\ m.mode = modeFolderView
    /\ m.folderCursor > 0
    /\ m' = [m EXCEPT !.folderCursor = @ - 1]
    /\ ev' = Event("up", NoMsg)
    /\ UNCHANGED <<store, cfg, disk, hist, faults>>

FolderDown ==
    /\ Tick
    /\ Running /\ m.mode = modeFolderView
    /\ m.folderCursor < Len(m.folders) - 1
    /\ m' = [m EXCEPT !.folderCursor = @ + 1]
    /\ ev' = Event("down", NoMsg)
    /\ UNCHANGED <<store, cfg, disk, hist, faults>>

FolderSpace ==
    /\ Tick
    /\ Running /\ m.mode = modeFolderView
    /\ m.folderCursor < Len(m.folders)
    /\ m' = [m EXCEPT !.folders[m.folderCursor + 1].Selected = ~@]
    /\ ev' = Event("space", NoMsg)
    /\ UNCHANGED <<store, cfg, disk, hist, faults>>

\* a folder delete that also removes the files below the chosen folders
FolderDelete_WithSubdirs ==
    /\ Tick
    /\ Running /\ m.mode = modeFolderView
    /\ \E saveOk \in IoResults :
         LET selected == {m.folders[i].Path : i \in {j \in DOMAIN m.folders :
                                                       m.folders[j].Selected}}
             foldersToDelete ==
                 IF selected # {} THEN selected
                 ELSE IF m.folderCursor < Len(m.folders)
                 THEN {m.folders[m.folderCursor + 1].Path}
                 ELSE {}
             newFiles == SelectSeq(m.context.Files,
                             LAMBDA file : \A folder \in foldersToDelete :
                                               ~HasPrefix(file, folder \o <<"/">>))
             m1 == [m EXCEPT !.context.Files = newFiles]
         IN  /\ store' = SaveContext(store, m1.context, saveOk)
             /\ Counted(~saveOk)
             /\ \E m2 \in refreshFiles(m1, disk) :
                   m' = [m2 EXCEPT
                           !.folderCursor =
                               IF @ >= Len(m2.folders) /\ @ > 0
                               THEN Len(m2.folders) - 1 ELSE @,
                           !.mode = IF Len(m2.folders) = 0 THEN modeNormal ELSE @]
    /\ ev' = Event("folderdelete", NoMsg)
    /\ UNCHANGED <<cfg, disk, hist>>

\* handleFolderKey "d": the files of the selected folders, or of the folder
\* at the cursor, leave the context; the result of SaveContext is dropped
FolderDelete ==
    /\ Tick
    /\ Running /\ m.mode = modeFolderView
    /\ \E saveOk \in IoResults :
         LET selected == {m.folders[i].Path : i \in {j \in DOMAIN m.folders :
                                                       m.folders[j].Selected}}
             foldersToDelete ==
                 IF selected # {} THEN selected
                 ELSE IF m.folderCursor < Len(m.folders)
                 THEN {m.folders[m.folderCursor + 1].Path}
                 ELSE {}
             newFiles == SelectSeq(m.context.Files,
                                   LAMBDA file : Dir(Clean(file)) \notin foldersToDelete)
             m1 == [m EXCEPT !.context.Files = newFiles]
         IN  /\ store' = SaveContext(store, m1.context, saveOk)
             /\ Counted(~saveOk)
             /\ \E m2 \in refreshFiles(m1, disk) :
                   m' = [m2 EXCEPT
                           !.folderCursor =
                               IF @ >= Len(m2.folders) /\ @ > 0
                               THEN Len(m2.folders) - 1 ELSE @,
                           !.mode = IF Len(m2.folders) = 0 THEN modeNormal ELSE @]
    /\ ev' = Event("folderdelete", NoMsg)
    /\ UNCHANGED <<cfg, disk, hist>>

\* handleNormalKey "y" on the history tab
KeyYankHistory ==
    /\ Tick
    /\ InNormalMode /\ m.activeTab = tabHistory
    /\ \E clipOk \in IoResults :
         LET r == yankHistoryEntry(m, disk, hist, clipOk)
         IN  /\ hist' = r.hist /\ Counted(r.failed)
             /\ ev' = [Event("replay", r.status) EXCEPT !.copied = r.copied]
    /\ UNCHANGED <<m, store, cfg, disk>>

\* handleNormalKey "]"
KeyNextBox ==
    /\ Tick
    /\ InNormalMode
    /\ m' = [m EXCEPT !.activeBox =
                IF @ + 1 > boxProjectContext THEN boxRequest ELSE @ + 1]
    /\ ev' = Event("]", NoMsg)
    /\ UNCHANGED <<store, cfg, disk, hist, faults>>

\* handleNormalKey "}"
KeyNextContext ==
    /\ Tick
    /\ InNormalMode
    /\ Len(m.contexts) > 1
    /\ LET found == {i \in DOMAIN m.contexts : m.contexts[i] = m.context.Name}
           currentIdx == IF found = {} THEN 0
                         ELSE CHOOSE i \in found : \A j \in found : i <= j
           name == IF currentIdx < Len(m.contexts) THEN m.contexts[currentIdx + 1]
                   ELSE m.contexts[1]
       IN  \E cfgOk \in IoResults :
             \E r \in switchToContext(m, store, cfg, disk, name, cfgOk) :
                /\ m' = r.m /\ cfg' = r.cfg /\ Counted(~cfgOk)
    /\ ev' = Event("}", NoMsg)
    /\ UNCHANGED <<store, disk, hist>>

\* handleNormalKey "enter"/"e": enterEditMode
KeyEdit ==
    /\ Tick
    /\ InContextTab
    /\ m.activeBox \in {boxRequest, boxProjectContext}
    /\ m' = [m EXCEPT !.textArea = IF m.activeBox = boxRequest THEN m.context.Request
                                   ELSE m.context.ProjectContext,
                      !.editingBox = m.activeBox,
                      !.mode = modeEditBox]
    /\ ev' = Event("e", NoMsg)
    /\ UNCHANGED <<store, cfg, disk, hist, faults>>

\* handleEditBoxKey: the keys the text area takes
EditType ==
    /\ Tick
    /\ Running /\ m.mode = modeEditBox
    /\ \E text \in EditTexts \ {m.textArea} : m' = [m EXCEPT !.textArea = text]
    /\ ev' = Event("type", NoMsg)
    /\ UNCHANGED <<store, cfg, disk, hist, faults>>

\* an Enter in the edit box that writes the text to the request, whichever
\* box is edited
EditEnter_RequestOnly ==
    /\ Tick
    /\ Running /\ m.mode = modeEditBox
    /\ \E saveOk \in IoResults :
         LET m1 == [m EXCEPT !.context.Request = m.textArea]
         IN  /\ store' = SaveContext(store, m1.context, saveOk)
             /\ Counted(~saveOk)
             /\ m' = [m1 EXCEPT !.mode = modeNormal, !.editingBox = 0 - 1]
    /\ ev' = Event("edit", NoMsg)
    /\ UNCHANGED <<cfg, disk, hist>>

\* an Enter in the edit box that keeps the new text in memory only
EditEnter_NoSave ==
    /\ Tick
    /\ Running /\ m.mode = modeEditBox
    /\ LET m1 == IF m.editingBox = boxRequest
                 THEN [m EXCEPT !.context.Request = m.textArea]
                 ELSE IF m.editingBox = boxProjectContext
                 THEN [m EXCEPT !.context.ProjectContext = m.textArea]
                 ELSE m
       IN  m' = [m1 EXCEPT !.mode = modeNormal, !.editingBox = 0 - 1]
    /\ ev' = Event("edit", NoMsg)
    /\ UNCHANGED <<store, cfg, disk, hist, faults>>

\* handleEditBoxKey Enter; the result of SaveContext is dropped
EditEnter ==
    /\ Tick
    /\ Running /\ m.mode = modeEditBox
    /\ \E saveOk \in IoResults :
         LET m1 == IF m.editingBox = boxRequest
                   THEN [m EXCEPT !.context.Request = m.textArea]
                   ELSE IF m.editingBox = boxProjectContext
                   THEN [m EXCEPT !.context.ProjectContext = m.textArea]
                   ELSE m
         IN  /\ store' = SaveContext(store, m1.context, saveOk)
             /\ Counted(~saveOk)
             /\ m' = [m1 EXCEPT !.mode = modeNormal, !.editingBox = 0 - 1]
    /\ ev' = Event("edit", NoMsg)
    /\ UNCHANGED <<cfg, disk, hist>>

\* handleEditBoxKey Esc
EditEsc ==
    /\ Tick
    /\ Running /\ m.mode = modeEditBox
    /\ m' = [m EXCEPT !.mode = modeNormal, !.editingBox = 0 - 1]
    /\ ev' = Event("esc", NoMsg)
    /\ UNCHANGED <<store, cfg, disk, hist, faults>>

\* handleNormalKey ">": the history tab loads the stored entries
KeyHistoryTab ==
    /\ Tick
    /\ InNormalMode /\ m.activeTab = tabContext
    /\ \E entries \in ListHistoryEntries(hist) :
         m' = [m EXCEPT !.activeTab = tabHistory, !.historyEntries = entries,
                        !.historyCursor = 0]
    /\ ev' = Event(">", NoMsg)
    /\ UNCHANGED <<store, cfg, disk, hist, faults>>

\* handleNormalKey "<"
KeyContextTab ==
    /\ Tick
    /\ InNormalMode /\ m.activeTab = tabHistory
    /\ m' = [m EXCEPT !.activeTab = tabContext]
    /\ ev' = Event("<", NoMsg)
    /\ UNCHANGED <<store, cfg, disk, hist, faults>>

\* handleNormalKey "up"/"k" and "down"/"j" on the history tab
HistoryUp ==
    /\ Tick
    /\ InNormalMode /\ m.activeTab = tabHistory
    /\ m.historyCursor > 0
    /\ m' = [m EXCEPT !.historyCursor = @ - 1]
    /\ ev' = Event("up", NoMsg)
    /\ UNCHANGED <<store, cfg, disk, hist, faults>>

HistoryDown ==
    /\ Tick
    /\ InNormalMode /\ m.activeTab = tabHistory
    /\ m.historyCursor < Len(m.historyEntries) - 1
    /\ m' = [m EXCEPT !.historyCursor = @ + 1]
    /\ ev' = Event("down", NoMsg)
    /\ UNCHANGED <<store, cfg, disk, hist, faults>>

\* handleNormalKey "c": enterContextSelect
KeyContextSelect ==
    /\ Tick
    /\ InNormalMode
    /\ LET items == <<NEWCTX>> \o ListContexts(store)
           at == {i \in DOMAIN items : items[i] = m.config.ActiveContext}
       IN  m' = [m EXCEPT !.selectItems = items,
                          !.selectCursor = IF at = {} THEN 0
                                           ELSE (CHOOSE i \in at : \A j \in at : i <= j) - 1,
                          !.mode = modeContextSelect]
    /\ ev' = Event("c", NoMsg)
    /\ UNCHANGED <<store, cfg, disk, hist, faults>>

\* handleNormalKey "E": enterExcludeSelect
KeyExcludeSelect ==
    /\ Tick
    /\ InNormalMode
    /\ LET items == ListExcludeRules
           at == {i \in DOMAIN items : items[i] = m.config.ActiveExclude}
       IN  m' = [m EXCEPT !.selectItems = items,
                          !.selectCursor = IF at = {} THEN 0
                                           ELSE (CHOOSE i \in at : \A j \in at : i <= j) - 1,
                          !.mode = modeExcludeSelect]
    /\ ev' = Event("E", NoMsg)
    /\ UNCHANGED <<store, cfg, disk, hist, faults>>

\* handleNormalKey "r": reload.  A config naming a context that cannot be
\* loaded leaves m.config replaced and the rest as it was
KeyReload ==
    /\ Tick
    /\ InNormalMode
    /\ LET m1 == [m EXCEPT !.config = cfg]
           ctx == LoadContext(store, cfg.ActiveContext)
           m2 == [m1 EXCEPT !.context = ctx,
                            !.exclude = LoadExcludeRule(cfg.ActiveExclude),
                            !.contexts = ListContexts(store)]
       IN  IF ctx = NoContext THEN m' = m1
           ELSE \E m3 \in refreshFiles(m2, disk) : m' = [m3 EXCEPT !.cursor = 0]
    /\ ev' = Event("reload", NoMsg)
    /\ UNCHANGED <<store, cfg, disk, hist, faults>>

\* handleSelectKey "up", "down", "esc"
SelectUp ==
    /\ Tick
    /\ Running /\ m.mode \in {modeContextSelect, modeExcludeSelect}
    /\ m.selectCursor > 0
    /\ m' = [m EXCEPT !.selectCursor = @ - 1]
    /\ ev' = Event("up", NoMsg)
    /\ UNCHANGED <<store, cfg, disk, hist, faults>>

SelectDown ==
    /\ Tick
    /\ Running /\ m.mode \in {modeContextSelect, modeExcludeSelect}
    /\ m.selectCursor < Len(m.selectItems) - 1
    /\ m' = [m EXCEPT !.selectCursor = @ + 1]
    /\ ev' = Event("down", NoMsg)
    /\ UNCHANGED <<store, cfg, disk, hist, faults>>

SelectEsc ==
    /\ Tick
    /\ Running /\ m.mode \in {modeContextSelect, modeExcludeSelect}
    /\ m' = [m EXCEPT !.mode = modeNormal]
    /\ ev' = Event("esc", NoMsg)
    /\ UNCHANGED <<store, cfg, disk, hist, faults>>

\* a "D" that refuses only the "[+] New context" item
SelectDelete_AnyContext ==
    /\ Tick
    /\ Running /\ m.mode = modeContextSelect
    /\ m.selectCursor < Len(m.selectItems)
    /\ LET selected == m.selectItems[m.selectCursor + 1]
       IN  /\ selected # NEWCTX
           /\ m' = [m EXCEPT !.deleteTarget = selected, !.mode = modeConfirmDeleteCtx]
    /\ ev' = Event("D", NoMsg)
    /\ UNCHANGED <<store, cfg, disk, hist, faults>>

\* handleSelectKey "D": ask before deleting a context other than "default"
SelectDelete ==
    /\ Tick
    /\ Running /\ m.mode = modeContextSelect
    /\ m.selectCursor < Len(m.selectItems)
    /\ LET selected == m.selectItems[m.selectCursor + 1]
       IN  /\ selected # NEWCTX /\ selected # DEFAULT
           /\ m' = [m EXCEPT !.deleteTarget = selected, !.mode = modeConfirmDeleteCtx]
    /\ ev' = Event("D", NoMsg)
    /\ UNCHANGED <<store, cfg, disk, hist, faults>>

\* handleSelectKey "enter": a new context, a switch to the chosen context,
\* or a switch to the chosen exclude rule; SaveConfig's result is dropped
SelectEnter ==
    /\ Tick
    /\ Running /\ m.mode \in {modeContextSelect, modeExcludeSelect}
    /\ IF m.selectCursor >= Len(m.selectItems)
       THEN m' = [m EXCEPT !.mode = modeNormal] /\ UNCHANGED <<cfg, faults>>
       ELSE LET selected == m.selectItems[m.selectCursor + 1]
                ctx == LoadContext(store, selected)
                m1 == [m EXCEPT !.exclude = LoadExcludeRule(selected),
                                !.config.ActiveExclude = selected]
            IN  IF m.mode = modeExcludeSelect
                THEN \E cfgOk \in IoResults :
                       /\ m' = [m1 EXCEPT !.mode = modeNormal]
                       /\ cfg' = IF cfgOk THEN m1.config ELSE cfg
                       /\ Counted(~cfgOk)
                ELSE IF selected = NEWCTX
                THEN /\ m' = [m EXCEPT !.mode = modeNewContext, !.inputBuffer = <<>>]
                     /\ UNCHANGED <<cfg, faults>>
                ELSE IF ctx = NoContext
                THEN m' = [m EXCEPT !.mode = modeNormal] /\ UNCHANGED <<cfg, faults>>
                ELSE \E cfgOk \in IoResults :
                       \E r \in switchToContext(m, store, cfg, disk, selected, cfgOk) :
                          /\ m' = [r.m EXCEPT !.mode = modeNormal]
                          /\ cfg' = r.cfg /\ Counted(~cfgOk)
    /\ ev' = Event("select", NoMsg)
    /\ UNCHANGED <<store, disk, hist>>

\* handleConfirmDeleteKey "y"
ConfirmYes ==
    /\ Tick
    /\ Running /\ m.mode = modeConfirmDeleteCtx
    /\ \E removeOk \in IoResults :
         IF ~removeOk \/ m.deleteTarget \notin DOMAIN store
         THEN /\ m' = [m EXCEPT !.mode = modeNormal]
              /\ Counted(~removeOk)
              /\ UNCHANGED <<store, cfg>>
         ELSE LET st1 == DeleteContext(store, m.deleteTarget, TRUE)
                  contexts == ListContexts(st1)
                  done(mm) == [mm EXCEPT !.contexts = contexts, !.mode = modeNormal,
                                         !.deleteTarget = <<>>]
              IN  /\ store' = st1
                  /\ IF m.deleteTarget = m.context.Name /\ Len(contexts) > 0
                     THEN \E cfgOk \in IoResults :
                            \E r \in switchToContext(m, st1, cfg, disk, contexts[1], cfgOk) :
                               /\ m' = done(r.m) /\ cfg' = r.cfg /\ Counted(~cfgOk)
                     ELSE m' = done(m) /\ UNCHANGED <<cfg, faults>>
    /\ ev' = Event("confirm", NoMsg)
    /\ UNCHANGED <<disk, hist>>

\* handleConfirmDeleteKey "n"
ConfirmNo ==
    /\ Tick
    /\ Running /\ m.mode = modeConfirmDeleteCtx
    /\ m' = [m EXCEPT !.mode = modeContextSelect, !.deleteTarget = <<>>]
    /\ ev' = Event("n", NoMsg)
    /\ UNCHANGED <<store, cfg, disk, hist, faults>>

\* handleNewContextKey: a character of the name
NewContextType ==
    /\ Tick
    /\ Running /\ m.mode = modeNewContext
    /\ Len(m.inputBuffer) < MaxLen
    /\ \E c \in NewNameChars : m' = [m EXCEPT !.inputBuffer = @ \o <<c>>]
    /\ ev' = Event("type", NoMsg)
    /\ UNCHANGED <<store, cfg, disk, hist, faults>>

\* handleNewContextKey Enter: an empty context of that name is stored and
\* becomes the active one
NewContextEnter ==
    /\ Tick
    /\ Running /\ m.mode = modeNewContext
    /\ IF m.inputBuffer = <<>>
       THEN m' = [m EXCEPT !.mode = modeNormal] /\ UNCHANGED <<store, cfg, faults>>
       ELSE \E saveOk \in IoResults :
              LET ctx == [Name |-> m.inputBuffer, ProjectRoot |-> <<>>,
                          ProjectContext |-> <<>>, Request |-> <<>>, Files |-> <<>>]
                  m1 == [m EXCEPT !.context = ctx, !.config.ActiveContext = m.inputBuffer]
              IN  IF ~saveOk
                  THEN /\ m' = [m EXCEPT !.mode = modeNormal]
                       /\ Counted(TRUE)
                       /\ UNCHANGED <<store, cfg>>
                  ELSE \E cfgOk \in IoResults :
                         /\ store' = SaveContext(store, ctx, TRUE)
                         /\ cfg' = IF cfgOk THEN m1.config ELSE cfg
                         /\ Counted(~cfgOk)
                         /\ \E m2 \in refreshFiles(m1, disk) :
                               m' = [m2 EXCEPT !.cursor = 0, !.mode = modeNormal]
    /\ ev' = Event("new", NoMsg)
    /\ UNCHANGED <<disk, hist>>

\* handleNewContextKey Esc
NewContextEsc ==
    /\ Tick
    /\ Running /\ m.mode = modeNewContext
    /\ m' = [m EXCEPT !.mode = modeNormal]
    /\ ev' = Event("esc", NoMsg)
    /\ UNCHANGED <<store, cfg, disk, hist, faults>>

\* a session on the history: yanks and replays between edits of the texts,
\* a paste, deletes, and switches, creations and deletions of contexts
NextSession ==
    \/ SessionPaste
    \/ SessionYank
    \/ SessionDelete
    \/ KeyYankHistory
    \/ KeyNextBox
    \/ KeyNextContext
    \/ KeyEdit
    \/ EditType
    \/ EditEnter
    \/ EditEsc
    \/ KeyHistoryTab
    \/ KeyContextTab
    \/ HistoryUp
    \/ HistoryDown
    \/ KeyContextSelect
    \/ SelectUp
    \/ SelectDown
    \/ SelectEsc
    \/ SelectDelete
    \/ SelectEnter
    \/ ConfirmYes
    \/ ConfirmNo
    \/ NewContextType
    \/ NewContextEnter
    \/ NewContextEsc

SpecSession == InitSession /\ [][NextSession]_vars

\* a session on the active context: its file list and its texts
NextFiles ==
    \/ FilesPaste
    \/ SessionDelete
    \/ SessionClearAll
    \/ KeyFolderView
    \/ FolderEsc
    \/ FolderUp
    \/ FolderDown
    \/ FolderSpace
    \/ FolderDelete
    \/ KeyNextBox
    \/ KeyNextContext
    \/ KeyEdit
    \/ EditType
    \/ EditEnter
    \/ EditEsc

SpecFiles == InitSession /\ [][NextFiles]_vars

\* a session on the contexts and the config
NextContexts ==
    \/ KeyNextContext
    \/ KeyContextSelect
    \/ KeyExcludeSelect
    \/ KeyReload
    \/ SelectUp
    \/ SelectDown
    \/ SelectEsc
    \/ SelectDelete
    \/ SelectEnter
    \/ ConfirmYes
    \/ ConfirmNo
    \/ NewContextType
    \/ NewContextEnter
    \/ NewContextEsc
    \/ SessionPaste


----------------------------------------------------------------------------
(* main.go: the history tab with entries of earlier runs, whose files come *)
(* and go on the disk.                                                     *)

\* the file lists of the entries of earlier yanks; /b/l came from pasting /b
ReplayFileLists == {<<>>, <<PASY, PAX>>, <<PAX, PBL, PBZ>>}

ReplayEntry(k, files) ==
    [Timestamp |-> 0 - k * TicksPerSecond, ContextName |-> DEFAULT,
     ProjectContext |-> <<"p">>, Request |-> <<"r", NL>>, Files |-> files]

ReplayHistories ==
    {(HistoryEntryFilename(ReplayEntry(1, f1)) :> ReplayEntry(1, f1))
        @@ (HistoryEntryFilename(ReplayEntry(2, f2)) :> ReplayEntry(2, f2)) :
     f1 \in ReplayFileLists, f2 \in ReplayFileLists}

\* the program after ">" was pressed on a history of earlier runs
InitReplay ==
    /\ store = SessionContexts
    /\ disk = [p \in FilePaths |-> TRUE]
    /\ hist \in ReplayHistories
    /\ \E m0 \in refreshFiles(initialModel(DefaultConfig, LoadContext(store, DEFAULT),
                                          ListContexts(store), DefaultExclude), disk),
          entries \in ListHistoryEntries(hist) :
          m = [m0 EXCEPT !.activeTab = tabHistory, !.historyEntries = entries]
    /\ cfg = DefaultConfig
    /\ now = 0
    /\ faults = 0
    /\ ev = Event("start", NoMsg)

NextReplay ==
    \/ KeyYankHistory
    \/ HistoryUp
    \/ HistoryDown
    \/ DiskChange

SpecReplay == InitReplay /\ [][NextReplay]_vars

----------------------------------------------------------------------------
(* main.go, exclude.go: startup on the configuration directory an earlier  *)
(* run, or the user, left behind, followed by a session.                   *)

\* EnsureConfigDir: default.yaml is created when it does not exist
EnsureConfigDir(st) ==
    IF DEFAULT \in DOMAIN st THEN st
    ELSE st @@ (DEFAULT :> [Name |-> DEFAULT, ProjectRoot |-> <<>>,
                            ProjectContext |-> <<>>, Request |-> <<>>, Files |-> <<>>])

\* initialModel up to refreshFiles: m.config is assigned before the active
\* context is loaded; the fall-back to "default" changes the local cfg, which
\* is saved, and not m.config.  The outcome [m, store, cfg]
loadInitialModel(st0, cfg0) ==
    LET st == EnsureConfigDir(st0)
        found == LoadContext(st, cfg0.ActiveContext) # NoContext
        ctx == IF found THEN LoadContext(st, cfg0.ActiveContext)
               ELSE LoadContext(st, DEFAULT)
    IN  [m |-> initialModel(cfg0, ctx, ListContexts(st), DefaultExclude),
         store |-> st,
         cfg |-> IF found THEN cfg0 ELSE [cfg0 EXCEPT !.ActiveContext = DEFAULT]]

\* ~/.ctx before startup: both contexts; w.yaml removed while config.yaml
\* names it; default.yaml removed
BootDirs ==
    {[store |-> SessionContexts, cfg |-> DefaultConfig],
     [store |-> [n \in {DEFAULT} |-> SessionContexts[n]],
      cfg |-> [DefaultConfig EXCEPT !.ActiveContext = W]],
     [store |-> [n \in {W} |-> SessionContexts[n]],
      cfg |-> [DefaultConfig EXCEPT !.ActiveContext = W]]}

InitBoot ==
    /\ disk = [p \in FilePaths |-> TRUE]
    /\ \E b \in BootDirs :
          LET s == loadInitialModel(b.store, b.cfg)
          IN  /\ store = s.store /\ cfg = s.cfg
              /\ m \in refreshFiles(s.m, disk)
    /\ hist = <<>>
    /\ now = 0
    /\ faults = 0
    /\ ev = Event("start", NoMsg)

SpecBoot == InitBoot /\ [][NextContexts]_vars

----------------------------------------------------------------------------
(* Properties.                                                             *)

Perms(s) == {[i \in DOMAIN s |-> s[p[i]]] : p \in Permutations(DOMAIN s)}

\* RemoveFile for each path of paths, one call after the other
RECURSIVE RemoveEach(_, _)
RemoveEach(files, paths) ==
    IF paths = <<>> THEN files
    ELSE RemoveEach(RemoveFile(files, Head(paths)), Tail(paths))

\* the document a yank is to give for the files in the given order
RECURSIVE Blocks(_, _)
Blocks(paths, ProjectRoot) ==
    IF paths = <<>> THEN <<>>
    ELSE FileBlock(DisplayPath(Head(paths), ProjectRoot), Content(Head(paths)))
         \o Blocks(Tail(paths), ProjectRoot)

Document(ctx, paths) == Header(ctx) \o Blocks(paths, ctx.ProjectRoot)

OnDisk(paths) == SelectSeq(paths, LAMBDA f : Exists(disk, f))

\* the file pane shows the context's file list as the disk has it now
PaneFresh ==
    /\ Paths(m.files) \in Perms(m.context.Files)
    /\ \A i \in DOMAIN m.files : m.files[i].Exists = Exists(disk, m.files[i].Path)

\* the history name of an entry of context name written at time t
KeyAt(t, name) == [sec |-> t \div TicksPerSecond, name |-> sanitizeFilename(name)]

\* C1: starting from a duplicate-free file list, after any sequence of
\* AddFile calls the file list holds each path at most once.
C1_DedupInvariant == NoDup(m.context.Files)

\* an AddFile of a path already in a list of two or more was refused
C1_Witness ==
    /\ ev.op = "AddFile" /\ ~ev.ret
    /\ Len(m.context.Files) >= 2
    /\ ev.path = m.context.Files[1]

\* C2: AddFile(path) appends path at the end iff no element is exactly equal
\* to it, returns true exactly when it appended, and otherwise leaves the
\* list as it was and returns false.
C2_AddFileContract ==
    ev.op = "AddFile" =>
        IF \E i \in DOMAIN ev.old : ev.old[i] = ev.path
        THEN m.context.Files = ev.old /\ ~ev.ret
        ELSE m.context.Files = Append(ev.old, ev.path) /\ ev.ret

\* /a/./x was appended to a list that holds /a/x
C2_Witness ==
    /\ ev.op = "AddFile" /\ ev.path = PADOTX /\ ev.ret
    /\ \E i \in DOMAIN ev.old : ev.old[i] = PAX
    /\ m.context.Files = Append(ev.old, PADOTX)

\* C3: RemoveFile(p) removes every occurrence of p and nothing else, leaves
\* a list without p as it was, and a second RemoveFile(p) in a row changes
\* nothing.
C3_RemoveFileIdempotent ==
    [][/\ ev'.op = "RemoveFile" =>
            /\ Count(m'.context.Files, ev'.path) = 0
            /\ \A q \in CtxPaths \ {ev'.path} :
                   Count(m'.context.Files, q) = Count(m.context.Files, q)
            /\ Count(m.context.Files, ev'.path) = 0
                   => m'.context.Files = m.context.Files
       /\ (ev.op = "RemoveFile" /\ ev'.op = "RemoveFile" /\ ev'.path = ev.path)
            => m'.context.Files = m.context.Files]_vars

\* a path that was twice in the list was removed, and another path stayed
C3_Witness ==
    /\ ev.op = "RemoveFile"
    /\ Count(ev.old, ev.path) = 2
    /\ Count(m.context.Files, ev.path) = 0
    /\ Len(m.context.Files) = Len(ev.old) - 2
    /\ m.context.Files # <<>>

\* C4: RemoveFiles(paths) leaves exactly the elements not in paths, in their
\* order, and that is what RemoveFile for each path gives, in any order of
\* the paths.
C4_RemoveFilesFilter ==
    ev.op = "RemoveFiles" =>
        /\ m.context.Files = SelectSeq(ev.old, LAMBDA f : f \notin Range(ev.paths))
        /\ \A order \in Perms(ev.paths) : RemoveEach(ev.old, order) = m.context.Files

\* two different paths of the list were removed in one call, a third stayed
C4_Witness ==
    /\ ev.op = "RemoveFiles"
    /\ Len(ev.paths) >= 2 /\ ev.paths[1] # ev.paths[2]
    /\ Count(ev.old, ev.paths[1]) > 0 /\ Count(ev.old, ev.paths[2]) > 0
    /\ m.context.Files # <<>>
    /\ Len(m.context.Files) < Len(ev.old)

\* C5: a paste of a directory appends the expanded paths that the context
\* does not hold, once each and in expansion order, after the paths it
\* holds, and reports as added the number of paths appended.
C5_AddDirectory ==
    [][(/\ ev'.op = "paste"
        /\ IsDir(TrimSpace(ev'.input))
        /\ ev'.status.msg \in {"Added files from directory", "Error saving"})
       => LET old == m.context.Files
              new == m'.context.Files
              expanded == ExpandDirectory(TrimSpace(ev'.input), m.exclude, disk)
              absent == SelectSeq(expanded, LAMBDA f : Count(old, f) = 0)
          IN  /\ new = old \o absent
              /\ NoDup(absent)
              /\ ev'.status.msg = "Added files from directory"
                     => ev'.status.n = Len(new) - Len(old)]_vars

\* /a was pasted into a context that held /a/x: /a/s/y alone was appended
C5_Witness ==
    /\ ev.op = "paste" /\ ev.input = DA
    /\ ev.status = Msg("Added files from directory", 1)
    /\ m.context.Files = <<PAX, PASY>>

\* C6: with exactly one path of the file list missing from the disk, a yank
\* copies the document with the blocks of exactly the existing files and
\* gives a missing-file count of 1.
C6_MissingFileSkip ==
    (/\ ev.op = "yank"
     /\ ev.status.msg # "Clipboard error"
     /\ PaneFresh
     /\ Len(m.context.Files) - Len(OnDisk(m.context.Files)) = 1)
    => /\ ev.copied \in {Document(m.context, order) :
                            order \in Perms(OnDisk(m.context.Files))}
       /\ ev.status = Msg("Warning: file(s) missing", 1)

\* C7: every yank adds exactly one entry to the history store.
C7_OneEntryPerYank ==
    [][ev'.op = "yank" =>
          Cardinality(DOMAIN hist') = Cardinality(DOMAIN hist) + 1]_vars

\* C8: after a yank, the entry of the yank holds the context's name,
\* project_context and request and every path of the context's file list,
\* the ones missing from the disk too.
C8_EntrySnapshot ==
    [][(/\ ev'.op = "yank"
        /\ faults' = faults
        /\ PaneFresh)
       => LET key == KeyAt(now', m.context.Name)
          IN  /\ key \in DOMAIN hist'
              /\ hist'[key].ContextName = m.context.Name
              /\ hist'[key].ProjectContext = m.context.ProjectContext
              /\ hist'[key].Request = m.context.Request
              /\ Range(hist'[key].Files) = Range(m.context.Files)
              /\ Len(hist'[key].Files) = Len(m.context.Files)]_vars

\* C9: a yank writes the file blocks, and the paths of its history entry,
\* in the order of the context's file list.
C9_InsertionOrder ==
    [][(/\ ev'.op = "yank"
        /\ ev'.copied # NotCopied
        /\ faults' = faults
        /\ PaneFresh)
       => /\ ev'.copied = Document(m.context, OnDisk(m.context.Files))
          /\ hist'[KeyAt(now', m.context.Name)].Files = m.context.Files]_vars

Written == DOMAIN hist \cup {HistoryEntryFilename(ev'.entry)}

UnsafeChars == {"/", "\\", ":", "*", "?", "\"", "<", ">", "|", " "}

\* C15: the file name of an entry is its second formatted as date, "_",
\* HH-MM-SS, then "_", then the context name with each listed character
\* replaced by "_" and every other kept, then ".yaml"; the sanitized name
\* holds none of the listed characters and is its own sanitization.
C15_KeyFormat ==
    ev.op = "HistoryEntryFilename" =>
        LET name == ev.entry.ContextName
            clean == [i \in DOMAIN name |->
                         IF name[i] \in UnsafeChars THEN "_" ELSE name[i]]
            stamp == SubSeq(ev.ret, 1, 10)
        IN  /\ ev.ret = stamp \o <<"_">> \o clean \o YAML
            /\ stamp = Format(ev.entry.Timestamp \div TicksPerSecond)
            /\ stamp[2] = "_" /\ stamp[5] = "-" /\ stamp[8] = "-"
            /\ \A j \in {3, 4, 6, 7, 9, 10} : stamp[j] \in Range(Digits)
            /\ \A j \in DOMAIN clean : clean[j] \notin UnsafeChars
            /\ sanitizeFilename(name) = clean
            /\ sanitizeFilename(clean) = clean

\* the name "a " of a later tick of a second was given the key ..._a_
C15_Witness ==
    /\ ev.op = "HistoryEntryFilename"
    /\ ev.entry.ContextName = <<"a", " ">>
    /\ ev.entry.Timestamp % TicksPerSecond # 0
    /\ ev.ret = Format(ev.entry.Timestamp \div TicksPerSecond) \o <<"_", "a", "_">> \o YAML

\* the paths of the tree at or below root
Below(root) == {q \in TreePaths : q = root \/ HasPrefix(q, root \o <<"/">>)}

\* q is, or lies below, a directory at or below root that the rule excludes
InExcludedDir(q, root, rule) ==
    \E dir \in DirPaths \cap Below(root) :
        /\ ShouldExclude(rule, dir)
        /\ (q = dir \/ HasPrefix(q, dir \o <<"/">>))

\* C16: ExpandDirectory calls its callback on nothing below an excluded
\* directory (the root included) and returns, once each, exactly the
\* non-excluded entries that are not directories and lie outside the
\* excluded directories.
C16_ExcludePruning ==
    ev.op = "ExpandDirectory" =>
        /\ NoDup(ev.ret)
        /\ Range(ev.ret) =
              {q \in Below(ev.dir) :
                  /\ ~EntryIsDir(q) /\ Exists(disk, q)
                  /\ ~ShouldExclude(ev.rule, q)
                  /\ ~InExcludedDir(q, ev.dir, ev.rule)}
        /\ \A v \in ev.visited :
              ~\E dir \in DirPaths \cap Below(ev.dir) :
                  ShouldExclude(ev.rule, dir) /\ HasPrefix(v, dir \o <<"/">>)

\* /a with **/node_modules/**: the directory is visited, nothing below it is,
\* and the files outside it are returned
C16_Witness ==
    /\ ev.op = "ExpandDirectory" /\ ev.dir = DA /\ ev.rule.Patterns = <<PNM>>
    /\ ev.ret = <<PASY, PAX>>
    /\ DANM \in ev.visited /\ PANMI \notin ev.visited

\* C16 as stated: the files returned are exactly the non-excluded regular
\* files outside the excluded directories.
C16_RegularFilesOnly ==
    ev.op = "ExpandDirectory" =>
        Range(ev.ret) =
            {q \in Below(ev.dir) :
                /\ q \notin DirPaths \cup LinkPaths /\ Exists(disk, q)
                /\ ~ShouldExclude(ev.rule, q)
                /\ ~InExcludedDir(q, ev.dir, ev.rule)}

\* a pattern doublestar.Match refuses: a class that is not closed
Malformed(pat) ==
    \E i \in DOMAIN pat : pat[i] = "[" /\ \A j \in (i + 2)..Len(pat) : pat[j] # "]"

\* C17: ShouldExclude is true iff some pattern matches the path or its base
\* name, whatever the order of the patterns, and a malformed pattern adds
\* no match.
C17_ShouldExclude ==
    ev.op = "ShouldExclude" =>
        LET ps == ev.rule.Patterns
        IN  /\ ev.ret = (\E pat \in Range(ps) :
                            Match(pat, ev.path) \/ Match(pat, Base(ev.path)))
            /\ \A order \in Perms(ps) :
                   ShouldExclude([ev.rule EXCEPT !.Patterns = order], ev.path) = ev.ret
            /\ ShouldExclude([ev.rule EXCEPT !.Patterns =
                                 SelectSeq(ps, LAMBDA pat : ~Malformed(pat))],
                             ev.path) = ev.ret

\* /a/x is excluded by the pattern x, which matches its base name only, in a
\* rule that holds a malformed pattern before it
C17_Witness ==
    /\ ev.op = "ShouldExclude" /\ ev.path = PAX /\ ev.ret
    /\ ev.rule.Patterns = <<<<"[", "x">>, <<"x">>>>
    /\ ~Match(<<"x">>, PAX) /\ Match(<<"x">>, Base(PAX))

\* C19: with a project root, a path that starts with the root and a
\* separator (added to the root unless it ends in one) is displayed without
\* that prefix; every other path is displayed unchanged.
C19_DisplayPath ==
    ev.op = "DisplayPath" =>
        LET prefix == IF ev.root # <<>> /\ ev.root[Len(ev.root)] = "/"
                      THEN ev.root ELSE ev.root \o <<"/">>
        IN  IF /\ ev.root # <<>>
               /\ Len(ev.path) >= Len(prefix)
               /\ SubSeq(ev.path, 1, Len(prefix)) = prefix
            THEN ev.ret = SubSeq(ev.path, Len(prefix) + 1, Len(ev.path))
            ELSE ev.ret = ev.path

\* /as under the root /a is displayed unchanged
C19_Witness ==
    /\ ev.op = "DisplayPath" /\ ev.root = DA /\ ev.path = PAS2
    /\ ev.ret = PAS2

\* C20: the block of a non-empty text without a final newline is the block
\* of the text followed by one newline: the opening tag, a newline, the
\* text, one newline, the closing tag, two newlines.
C20_TrailingNewline ==
    (/\ ev.op = "TextBlock"
     /\ ev.text # <<>>
     /\ ev.text[Len(ev.text)] # NL)
    => /\ ev.ret = <<ev.open, NL>> \o ev.text \o <<NL, ev.close, NL, NL>>
       /\ TextBlock(ev.open, ev.text \o <<NL>>, ev.close) = ev.ret

\* the request "t" gives <request>, newline, t, newline, </request>, two newlines
C20_Witness ==
    /\ ev.op = "TextBlock" /\ ev.text = <<"t">>
    /\ ev.ret = <<"<request>", NL, "t", NL, "</request>", NL, NL>>

\* the stored entry of the file k is the same after the step
Kept(k) == k \in DOMAIN hist' /\ hist'[k] = hist[k]

\* the step is a yank that copied and wrote its entry to the file k
YankWrote(k) ==
    /\ ev'.op = "yank" /\ ev'.copied # NotCopied
    /\ \E t \in 0..now' : /\ k = KeyAt(t, m.context.Name)
                           /\ k \in DOMAIN hist' /\ hist'[k].Timestamp = t

\* the step removed the file k by pruning a directory over its limit
PrunedAway(k) ==
    /\ k \notin DOMAIN hist'
    /\ Cardinality(DOMAIN hist) >= maxHistoryEntries

\* C12: no step of a session (editing a text, a paste, deleting a file,
\* switching, creating or deleting a context, a replay, a yank) changes a
\* stored history entry, with one exception: a yank that writes the file of
\* the same second and the same sanitized context name replaces the entry
\* stored there.  An entry disappears only by pruning.
C12_EntriesImmutable ==
    [][\A k \in DOMAIN hist : Kept(k) \/ YankWrote(k) \/ PrunedAway(k)]_vars

\* the entry of a yank is still stored with the request it was yanked with
\* after the request was edited and saved and the entry was replayed from
\* the history tab
C12_Witness ==
    /\ ev.op = "replay" /\ ev.copied # NotCopied
    /\ \E k \in DOMAIN hist :
          /\ hist[k].ContextName = DEFAULT
          /\ DEFAULT \in DOMAIN store
          /\ hist[k].Request # store[DEFAULT].Request

\* C12 as stated: every step keeps every stored entry, or prunes it
C12_NeverChanged ==
    [][\A k \in DOMAIN hist :
          \/ k \in DOMAIN hist' /\ hist'[k].Request = hist[k].Request
                                 /\ hist'[k].ProjectContext = hist[k].ProjectContext
                                 /\ hist'[k].Files = hist[k].Files
          \/ PrunedAway(k)]_vars

SameSecond(e1, e2) ==
    e1.Timestamp \div TicksPerSecond = e2.Timestamp \div TicksPerSecond

\* C13: a save whose entry is of the same second as a stored entry, and whose
\* context name sanitizes to the same string, is written over that entry:
\* the names in the store stay as they were.
C13_SameSecondOverwrite ==
    [][(ev'.op = "SaveHistoryEntry" /\ ev'.wrote)
       => \A k \in DOMAIN hist :
              (/\ SameSecond(hist[k], ev'.entry)
               /\ sanitizeFilename(hist[k].ContextName)
                      = sanitizeFilename(ev'.entry.ContextName))
              => /\ k = HistoryEntryFilename(ev'.entry)
                 /\ DOMAIN hist' = DOMAIN hist
                 /\ hist'[k] = ev'.entry]_vars

\* the entry of the context "a_" was written over the entry of the context
\* "a " of the same second
C13_Witness ==
    /\ ev.op = "SaveHistoryEntry" /\ ev.wrote /\ ~ev.isNew
    /\ ev.entry.ContextName = <<"a", "_">>
    /\ ev.old.ContextName = <<"a", " ">>
    /\ SameSecond(ev.old, ev.entry)
    /\ hist[HistoryEntryFilename(ev.entry)] = ev.entry
    /\ Cardinality(DOMAIN hist) = ev.before

C18_ExpansionAllOrNothing ==
    [][(ev'.op = "paste" /\ ev'.status.msg = "Error expanding")
       => /\ m'.context = m.context
          /\ m'.files = m.files
          /\ store' = store]_vars

\* the walk of /a failed on a context that lacks files of /a
C18_Witness ==
    /\ ev.op = "paste" /\ ev.input = DA
    /\ ev.status.msg = "Error expanding"
    /\ \E f \in Range(ExpandDirectory(DA, m.exclude, disk)) :
           f \notin Range(m.context.Files)
    /\ store[m.context.Name].Files = m.context.Files

\* the places of the token tok in the document doc
Positions(doc, tok) == {i \in DOMAIN doc : doc[i] = tok}

\* doc holds the block open..close of text exactly once, or not at all when
\* text is empty
HoldsBlock(doc, open, text, close) ==
    IF text = <<>>
    THEN Positions(doc, open) = {} /\ Positions(doc, close) = {}
    ELSE \E i, j \in DOMAIN doc :
           /\ Positions(doc, open) = {i} /\ Positions(doc, close) = {j}
           /\ i + 1 + Len(text) < j
           /\ SubSeq(doc, i + 2, i + 1 + Len(text)) = text

Before(doc, tok1, tok2) ==
    \A i \in Positions(doc, tok1), j \in Positions(doc, tok2) : i < j

YankCopied == ev.op = "yank" /\ ev.copied # NotCopied

\* C21: the document a yank copies starts with the preamble, holds the
\* <project_context> block exactly when the project context is not empty,
\* then the <request> block exactly when the request is not empty, then the
\* file blocks; no pair of tags is empty.
C21_DocumentOrder ==
    YankCopied =>
        LET doc == ev.copied
            ctx == m.context
        IN  /\ Positions(doc, "PREAMBLE") = {1}
            /\ HoldsBlock(doc, "<project_context>", ctx.ProjectContext, "</project_context>")
            /\ HoldsBlock(doc, "<request>", ctx.Request, "</request>")
            /\ Before(doc, "</project_context>", "<request>")
            /\ Before(doc, "</project_context>", "<file path=\"")
            /\ Before(doc, "</request>", "<file path=\"")
            /\ Cardinality(Positions(doc, "<file path=\"")) = Len(m.files)
            /\ \A i \in DOMAIN doc :
                  doc[i] \in {"<project_context>", "<request>"}
                     => doc[i + 2] \notin {"</project_context>", "</request>"}

\* a yank of a context with a project context, a request and a file
C21_Witness ==
    /\ YankCopied
    /\ m.context.ProjectContext # <<>> /\ m.context.Request # <<>>
    /\ Len(m.files) > 0
    /\ Positions(ev.copied, "<request>") # {}
    /\ Positions(ev.copied, "<file path=\"") # {}

\* the tokens of a file block between its opening line and its closing tag
BlockBody(block, path) == SubSeq(block, Len(path) + 4, Len(block) - 3)

\* a file block opens with the tag holding the display path and closes with
\* </file> and one blank line
BlockFrame(block, path) ==
    /\ Len(block) >= Len(path) + 6
    /\ SubSeq(block, 1, Len(path) + 3) = <<"<file path=\"">> \o path \o <<"\">", NL>>
    /\ SubSeq(block, Len(block) - 2, Len(block)) = <<"</file>", NL, NL>>

\* C22: a file block is the opening tag with the display path, the raw
\* content, one newline added exactly when the content is not empty and does
\* not end in a newline, the closing </file> tag and one blank line.  Empty
\* content gets no newline.
C22_FileBlock ==
    ev.op = "FileBlock" =>
        /\ BlockFrame(ev.ret, ev.path)
        /\ BlockBody(ev.ret, ev.path) =
              IF ev.content # <<>> /\ ~HasSuffix(ev.content, <<NL>>)
              THEN ev.content \o <<NL>> ELSE ev.content

\* the block of a file with empty content: the closing tag follows the
\* opening line at once
C22_Witness ==
    /\ ev.op = "FileBlock" /\ ev.content = <<>> /\ ev.path = <<"x">>
    /\ ev.ret = <<"<file path=\"", "x", "\">", NL, "</file>", NL, NL>>

\* C22 as stated: a newline is added whenever the content does not end in
\* one, empty content included
C22_NewlineUnlessEnding ==
    ev.op = "FileBlock" =>
        /\ BlockFrame(ev.ret, ev.path)
        /\ BlockBody(ev.ret, ev.path) =
              IF ~HasSuffix(ev.content, <<NL>>)
              THEN ev.content \o <<NL>> ELSE ev.content

\* the files of paths that os.ReadFile can read now
ReadableNow(paths) ==
    SelectSeq(paths, LAMBDA f : (f \in FilePaths /\ disk[f]) \/ f \in {PBZ, PANMI})

\* the entry under the cursor of the history tab
ReplayedEntry == m.historyEntries[m.historyCursor + 1]

\* C23: a replay leaves the history store, the active context, the context
\* store and the config as they are; when its clipboard write succeeds the
\* document holds the entry's texts and a block, under its absolute path, for
\* each file of the entry that can be read, in the entry's file order.
C23_ReplayFrame ==
    [][ev'.op = "replay" =>
          /\ hist' = hist /\ store' = store /\ cfg' = cfg
          /\ m'.context = m.context /\ m'.files = m.files
          /\ (m.historyCursor < Len(m.historyEntries) /\ ev'.status.msg # "Clipboard error")
                => ev'.copied = Header(ReplayedEntry)
                                   \o Blocks(ReadableNow(ReplayedEntry.Files), <<>>)]_vars

\* a replay of the entry /a/x, /b/l, /b/z while /a/x is gone and /b/l cannot
\* be read as a file: the document holds the block of /b/z alone
C23_Witness ==
    /\ ev.op = "replay" /\ ev.copied # NotCopied
    /\ ReplayedEntry.Files = <<PAX, PBL, PBZ>>
    /\ ~disk[PAX]
    /\ ev.copied = Header(ReplayedEntry) \o FileBlock(PBZ, Content(PBZ))
    /\ DOMAIN hist = {HistoryEntryFilename(ReplayEntry(1, <<>>)),
                      HistoryEntryFilename(ReplayEntry(2, <<>>))}

\* C24: after startup the store always holds the context "default"; the
\* confirmation prompt never asks about "default" or the "[+] New context"
\* item; a context leaves the store only in the step that answers the
\* prompt with "y", and it is the context the prompt asked about.
C24_DefaultKept ==
    /\ [](/\ DEFAULT \in DOMAIN store
          /\ m.mode = modeConfirmDeleteCtx => m.deleteTarget \notin {DEFAULT, NEWCTX})
    /\ [][\A n \in DOMAIN store \ DOMAIN store' :
             /\ m.mode = modeConfirmDeleteCtx /\ ev'.op = "confirm"
             /\ n = m.deleteTarget /\ n \notin {DEFAULT, NEWCTX}]_vars

\* the context w was deleted after a confirmation, the cursor of the list
\* having been on "default" before; "default" is still stored
C24_Witness ==
    /\ ev.op = "confirm"
    /\ W \notin DOMAIN store /\ DEFAULT \in DOMAIN store
    /\ m.mode = modeNormal /\ m.contexts = <<DEFAULT>>
    /\ m.context.Name = DEFAULT

\* C25: in every state the in-memory context names a stored context, and,
\* while no write has failed, so does the active_context of config.yaml.
C25_ActiveExists ==
    /\ m.context.Name \in DOMAIN store
    /\ faults = 0 => cfg.ActiveContext \in DOMAIN store

\* the operations that change the file list or a text of the active context
Mutations == {"paste", "delete", "clear", "folderdelete", "edit"}

\* C26: a paste, a delete, a clear, a folder delete or a committed text edit
\* that changed the in-memory context and whose save did not fail leaves the
\* stored record of the active context equal to the in-memory context.
C26_SavedAfterMutation ==
    [][(/\ ev'.op \in Mutations
        /\ m'.context # m.context
        /\ faults' = faults)
       => /\ m'.context.Name \in DOMAIN store'
          /\ store'[m'.context.Name] = m'.context]_vars

\* a folder delete took the file of /a/s out of the context w, in memory and
\* in the store
C26_Witness ==
    /\ ev.op = "folderdelete"
    /\ m.context.Name = W
    /\ m.context.Files = <<PAX>>
    /\ store[W] = m.context
    /\ store[W] # SessionContexts[W]

\* C27: a yank gives the missing-file warning exactly when some path of the
\* file list does not exist on the disk at the time of the yank (looked at in
\* the runs where no write and no clipboard call failed).
C27_WarningAtYankTime ==
    (ev.op = "yank" /\ faults = 0) =>
        (ev.status.msg = "Warning: file(s) missing"
            <=> \E i \in DOMAIN m.context.Files : ~Exists(disk, m.context.Files[i]))

\* C28: an Enter in the new-context prompt leaves the stored record of every
\* context that already exists as it is.
C28_NewContextKeepsOthers ==
    [][ev'.op = "new" =>
          \A n \in DOMAIN store : n \in DOMAIN store' /\ store'[n] = store[n]]_vars

\* the step left edit mode: normal mode, no box being edited
LeftEditMode == m'.mode = modeNormal /\ m'.editingBox = 0 - 1

\* C29: Esc in edit mode leaves the in-memory context and the context store
\* as they are.  Enter puts the text of the editor into the text of the box
\* being edited and changes no other field of the context; when the write
\* succeeds the stored record of the context is the new in-memory context,
\* and no other record changes.  Both end in normal mode with no box edited.
C29_EditBox ==
    [][/\ (m.mode = modeEditBox /\ ev'.op = "esc")
            => m'.context = m.context /\ store' = store /\ LeftEditMode
       /\ ev'.op = "edit"
            => /\ m.editingBox \in {boxRequest, boxProjectContext}
               /\ m.editingBox = boxRequest
                     => m'.context = [m.context EXCEPT !.Request = m.textArea]
               /\ m.editingBox = boxProjectContext
                     => m'.context = [m.context EXCEPT !.ProjectContext = m.textArea]
               /\ m'.files = m.files
               /\ store' = IF faults' = faults
                           THEN [store EXCEPT ![m.context.Name] = m'.context]
                           ELSE store
               /\ LeftEditMode]_vars

\* the project context of "default" was edited: the request and the file
\* list are as before, and the stored record holds the new text
C29_Witness ==
    /\ ev.op = "edit"
    /\ m.context.Name = DEFAULT
    /\ m.context.ProjectContext = <<"q">>
    /\ m.context.Request = SessionContexts[DEFAULT].Request
    /\ store[DEFAULT] = m.context
    /\ m.mode = modeNormal /\ m.editingBox = 0 - 1

\* C30: in every state after startup the active_context of the in-memory
\* config is the name of the loaded context, and, while no write has failed,
\* so is the active_context of config.yaml.
C30_ActiveContextAgrees ==
    /\ m.config.ActiveContext = m.context.Name
    /\ faults = 0 => cfg.ActiveContext = m.context.Name

\* C31: while no write has failed, the file cursor is a valid position:
\* never negative, 0 when the pane is empty and below the number of listed
\* files otherwise, so no key indexes outside the file list.
C31_CursorValid ==
    faults = 0 =>
        /\ Running
        /\ m.cursor >= 0
        /\ IF m.files = <<>> THEN m.cursor = 0 ELSE m.cursor < Len(m.files)

\* C32: after every operation that creates or deletes a context, with no
\* write failed, the list of names used by { and } holds exactly the
\* contexts of the store.
C32_ContextListFresh ==
    [][(faults' = 0 /\ DOMAIN store' # DOMAIN store)
           => m'.contexts = ListContexts(store')]_vars

\* C33: while the history tab is shown, no key press changes the file list
\* of the active context or the selection of its files (no write failed,
\* the same context stays active).
C33_HistoryTabKeepsFiles ==
    [][(/\ m.activeTab = tabHistory /\ m.mode = modeNormal
        /\ ev'.op # "paste" /\ faults' = 0
        /\ m'.context.Name = m.context.Name)
           => /\ m'.context.Files = m.context.Files
              /\ m'.files = m.files]_vars

\* the paths the delete key is to remove in the current state: the selected
\* rows of the pane, else the row at the cursor, if there is one
DeleteTargets ==
    LET sel == {m.files[i].Path : i \in {j \in DOMAIN m.files : m.files[j].Selected}}
    IN  IF sel # {} THEN sel
        ELSE IF m.cursor + 1 \in DOMAIN m.files THEN {m.files[m.cursor + 1].Path}
        ELSE {}

\* C34: the delete key removes from the context exactly the selected paths,
\* or with none selected exactly the path at the cursor of the displayed
\* list; the other paths keep their order, nothing is removed when no row is
\* at the cursor, and a successful save stores the same list.
C34_DeleteExactly ==
    [][ev'.op = "delete" =>
          /\ m'.context.Files =
                SelectSeq(m.context.Files, LAMBDA f : f \notin DeleteTargets)
          /\ ev'.status.msg \in {"Deleted file", "Deleted files"} =>
                store'[m.context.Name].Files = m'.context.Files]_vars

\* d with nothing selected has removed /a/x, the first row of the pane and
\* the second path of the context, and /a/s/y stays
C34_Witness ==
    /\ ev.op = "delete" /\ ev.status = Msg("Deleted file", 0)
    /\ m.context.Files = <<PASY>>
    /\ store[m.context.Name].Files = <<PASY>>

\* the folders the folder view's delete key acts on in the current state
ChosenFolders ==
    LET sel == {m.folders[i].Path : i \in {j \in DOMAIN m.folders : m.folders[j].Selected}}
    IN  IF sel # {} THEN sel
        ELSE IF m.folderCursor + 1 \in DOMAIN m.folders
        THEN {m.folders[m.folderCursor + 1].Path}
        ELSE {}

\* the directory that holds the file directly
ParentDir(file) == SubSeq(file, 1, LastSlash(file, Len(file)) - 1)

\* C35: folder delete removes from the context exactly the files that lie
\* directly in a chosen folder; files further below and all other files stay
\* in their order, and the view is back in normal mode exactly when no
\* folder is left.
C35_FolderDelete ==
    [][ev'.op = "folderdelete" =>
          /\ m'.context.Files =
                SelectSeq(m.context.Files, LAMBDA f : ParentDir(f) \notin ChosenFolders)
          /\ m'.mode = IF m'.context.Files = <<>> THEN modeNormal ELSE modeFolderView]_vars

\* folder /a was deleted with /a/x in it while /a/s/y, one level below,
\* stays and the folder view stays open
C35_Witness ==
    /\ ev.op = "folderdelete"
    /\ m.context.Name = DEFAULT
    /\ m.context.Files = <<PASY>>
    /\ m.mode = modeFolderView

----------------------------------------------------------------------------
(* main.go: a yank and the replay of its entry.  ev keeps, next to the     *)
(* last event, what the last successful yank copied, the entry it stored   *)
(* (NoEntry when the history write failed) and the disk it read.           *)

InitRound ==
    /\ \E ctx \in InitContexts :
          /\ store = [n \in {DEFAULT} |-> ctx]
          /\ m \in refreshFiles(initialModel(DefaultConfig, ctx, <<DEFAULT>>, DefaultExclude),
                                [p \in FilePaths |-> TRUE])
    /\ cfg = DefaultConfig
    /\ disk = [p \in FilePaths |-> TRUE]
    /\ hist = <<>>
    /\ now = 0
    /\ faults = 0
    /\ ev = [op |-> "start", copied |-> NotCopied, yanked |-> NotCopied,
             entry |-> NoEntry, diskAt |-> disk]

\* Update: a bracketed paste in normal mode
RoundPaste ==
    /\ Tick
    /\ Running /\ m.mode = modeNormal
    /\ \E raw \in SessionInputs, walkOk \in IoResults, saveOk \in IoResults :
         \E r \in processPaste(m, store, disk, raw, walkOk, saveOk) :
            m' = r.m /\ store' = r.store /\ Counted(r.failed)
    /\ ev' = [ev EXCEPT !.op = "paste", !.copied = NotCopied]
    /\ UNCHANGED <<cfg, disk, hist>>

\* handleNormalKey "y" on the context tab
RoundYank ==
    /\ Tick
    /\ InContextTab
    /\ \E clipOk \in IoResults, histOk \in IoResults :
         LET r == yank(m, disk, hist, now, clipOk, histOk)
         IN  /\ hist' = r.hist /\ Counted(r.failed)
             /\ ev' = IF r.copied = NotCopied
                      THEN [ev EXCEPT !.op = "yank", !.copied = NotCopied]
                      ELSE [op |-> "yank", copied |-> r.copied, yanked |-> r.copied,
                            entry |-> IF r.failed THEN NoEntry
                                      ELSE r.hist[[sec |-> now \div TicksPerSecond,
                                                   name |-> sanitizeFilename(m.context.Name)]],
                            diskAt |-> disk]
    /\ UNCHANGED <<m, store, cfg, disk>>

\* handleNormalKey ">": the history tab loads the stored entries
RoundHistoryTab ==
    /\ Tick
    /\ InNormalMode /\ m.activeTab = tabContext
    /\ \E entries \in ListHistoryEntries(hist) :
         m' = [m EXCEPT !.activeTab = tabHistory, !.historyEntries = entries,
                        !.historyCursor = 0]
    /\ ev' = [ev EXCEPT !.op = ">", !.copied = NotCopied]
    /\ UNCHANGED <<store, cfg, disk, hist, faults>>

\* handleNormalKey "down"/"j" on the history tab
RoundHistoryDown ==
    /\ Tick
    /\ InNormalMode /\ m.activeTab = tabHistory
    /\ m.historyCursor < Len(m.historyEntries) - 1
    /\ m' = [m EXCEPT !.historyCursor = @ + 1]
    /\ ev' = [ev EXCEPT !.op = "down", !.copied = NotCopied]
    /\ UNCHANGED <<store, cfg, disk, hist, faults>>

\* handleNormalKey "y" on the history tab
RoundReplay ==
    /\ Tick
    /\ InNormalMode /\ m.activeTab = tabHistory
    /\ \E clipOk \in IoResults :
         LET r == yankHistoryEntry(m, disk, hist, clipOk)
         IN  /\ hist' = r.hist /\ Counted(r.failed)
             /\ ev' = [ev EXCEPT !.op = "replay", !.copied = r.copied]
    /\ UNCHANGED <<m, store, cfg, disk>>

\* the environment: a file of the user is removed or comes back
RoundDiskChange ==
    /\ Tick
    /\ \E p \in FilePaths :
         /\ disk' = [disk EXCEPT ![p] = ~@]
         /\ Cardinality({q \in FilePaths : ~disk'[q]}) <= MaxMissing
    /\ ev' = [ev EXCEPT !.op = "env", !.copied = NotCopied]
    /\ UNCHANGED <<m, store, cfg, hist, faults>>

NextRound ==
    \/ RoundPaste
    \/ RoundYank
    \/ RoundHistoryTab
    \/ RoundHistoryDown
    \/ RoundReplay
    \/ RoundDiskChange

SpecRound == InitRound /\ [][NextRound]_vars

\* C36: for a context with no project_root, the replay of the entry that
\* the last successful yank stored, on the disk that yank read, copies the
\* document the yank copied.
C36_ReplayEqualsYank ==
    [][(/\ ev'.op = "replay" /\ ev'.copied # NotCopied
        /\ m.context.ProjectRoot = <<>>
        /\ m.historyEntries[m.historyCursor + 1] = ev.entry
        /\ disk = ev.diskAt)
           => ev'.copied = ev.yanked]_vars

\* the replay of a yank of /a/x and /a/s/y, pasted in the other order, gave
\* the yank's document
C36_Witness ==
    /\ ev.op = "replay" /\ ev.copied # NotCopied
    /\ ev.copied = ev.yanked
    /\ m.context.ProjectRoot = <<>>
    /\ m.context.Files = <<PASY, PAX>>
    /\ m.historyCursor < Len(m.historyEntries)
    /\ ev.entry # NoEntry
    /\ ev.entry.Files = <<PAX, PASY>>
    /\ m.historyEntries[m.historyCursor + 1] = ev.entry
    /\ disk = ev.diskAt

============================================================================
